---- MODULE Spec2Model ----
(***************************************************************************)
(* A model of the orchestration core of how-to-build-a-coding-agent:       *)
(*   - pkg/mcp: the session registry (Client), the tool catalog            *)
(*     (GetTools), the call router (CallTool, parseToolName);              *)
(*   - mcp_agent: the conversation loop (Agent.Run), the streaming and     *)
(*     non-streaming inference calls and the InputLock guard.              *)
(*                                                                         *)
(* Text is modelled as a sequence of tokens.  Names (provider names, tool  *)
(* names, qualified names) are sequences of one-character tokens, so that  *)
(* splitting on "__" is computed character by character.  A literal of a   *)
(* format string is one token.  A nil error is the empty text; every error *)
(* the code builds starts with a literal and is never empty.               *)
(***************************************************************************)
EXTENDS Integers, Sequences, FiniteSets, TLC

VARIABLES
    \* ---- parseToolName applied to one input (specification SpecParse)
    pName,          \* a provider name
    tName,          \* a local tool name
    qName,          \* the name handed to parseToolName
    parsed,         \* what parseToolName returned
    parsePc,        \* "input" | "parsed"
    \* ---- the registry, the catalog and the router (pkg/mcp Client)
    sessions,       \* Client.sessions: provider name -> session (its advertised tools)
    catalog,        \* what GetTools returned: a sequence of api.Tool
    origin,         \* for each catalog entry, the (serverName, tool.Name) it was built from
    lastCall,       \* the last CallTool: its inputs, what it returned, what it touched
    forwarded,      \* every call forwarded to a session, in order
    nCalls,         \* number of CallTool calls made (specification SpecMCP)
    listing,        \* the last GetTools: whose ListTools failed, the error returned
    \* ---- Agent.Run of mcp_agent (specification Spec)
    pc,             \* where main and Run are: "main" | "start" | "await" | "infer" | "tools" |
                    \* "reinfer" | "returned" | "exited" | "interrupted"
    stream,         \* Agent.stream
    userInput,      \* Run's userInput: what the last prompt read
    tools,          \* Run's tools: the catalog fetched before the first turn
    conversation,   \* Run's conversation
    message,        \* Run's message: the last inference response
    idx,            \* position of the range over message.ToolCalls
    runErr,         \* the error Run returned
    \* ---- one streaming response in runInferenceStreaming (specification SpecStream)
    received,       \* the fragments respFunc was called with, in order
    acc,            \* finalMessage and contentBuilder
    streamPc,       \* "open" | "returned" | "failed"
    \* ---- callers of runInference / runInferenceStreaming on one Agent (specification SpecGuard)
    gpc,            \* where each caller is
    inputLock,      \* Agent.inputLock: 0 when free, else the caller holding it
    isProcessing,   \* Agent.isProcessing
    \* ---- the life of the registry: NewClient, Close (specifications SpecMCP, Spec)
    config,         \* Config.MCPServers: provider name -> server configuration
    mcpPc,          \* "new" (before NewClient) | "ready" | "closed"
    connectOK,      \* the providers whose Connect succeeded in NewClient
    newErr,         \* the error NewClient returned
    closed,         \* the session.Close calls of Client.Close, in order, with their errors
    closeErr,       \* the error Client.Close returned
    \* ---- LoadConfig of pkg/mcp applied to one file (specification SpecConfig)
    cfgFile,        \* the file at the path given to LoadConfig
    loaded,         \* what LoadConfig returned
    \* ---- the file tools: EditFile of edit_tool, handleEditFile of the filesystem
    \* ---- provider (specifications SpecEditFile, SpecFsEdit)
    files,          \* the file system: path -> content, a path outside the domain does not exist
    toolIn,         \* the input of the last tool call
    toolOut,        \* what the last tool call returned
    \* ---- Agent.Run of edit_tool (specification SpecEditRun, with Run's variables above)
    ran,            \* the tool functions Run invoked, in order, with the error each returned
    lastErr,        \* Run's err: what the last prompt or inference returned
    \* ---- what the operator sees
    printed         \* the assistant text and main's messages written out, in order

parseVars == <<pName, tName, qName, parsed, parsePc>>
mcpVars == <<sessions, catalog, origin, lastCall, forwarded, nCalls, listing>>
runVars == <<pc, stream, userInput, tools, conversation, message, idx, runErr>>
streamVars == <<received, acc, streamPc>>
guardVars == <<gpc, inputLock, isProcessing>>
lifeVars == <<config, mcpPc, connectOK, newErr, closed, closeErr>>
cfgVars == <<cfgFile, loaded>>
fsVars == <<files, toolIn, toolOut>>
editVars == <<ran, lastErr>>
sideVars == <<cfgVars, fsVars, editVars>>
vars == <<parseVars, mcpVars, runVars, streamVars, guardVars, lifeVars, printed, sideVars>>

----------------------------------------------------------------------------
(* Bounds *)

\* longest provider name / local tool name given to parseToolName in SpecParse
MaxPart == 3
\* longest arbitrary name given to parseToolName in SpecParse
MaxName == 6
\* number of CallTool calls in one behaviour of SpecMCP
MaxRouterCalls == 2
\* longest conversation of a run in Spec
MaxMsgs == 7
\* most tool calls in one non-streamed inference response, and in one fragment
MaxToolCalls == 2
\* most fragments before the completion fragment in SpecStream
MaxFrags == 2
\* number of concurrent callers of the inference methods in SpecGuard
NumCallers == 2
\* how far below and above the preview length the tool results of
\* SpecPreview reach
MaxOver == 2
\* longest content of a file before a file tool is called
MaxContent == 3
\* longest text a file tool is given (old_str, new_str, content)
MaxStr == 2

----------------------------------------------------------------------------
(* Text *)

Chars == {"a", "_"}

\* all names of length lo..hi over Chars
Names(lo, hi) == UNION {[1..n -> Chars] : n \in lo..hi}

NoErr == <<>>

\* the separator of fmt.Sprintf("%s__%s", ...) and strings.Split(name, "__")
Sep == <<"_", "_">>

\* strings.Index(s, sep): the first position where sep starts in s, 0 when none
\* (Go: -1 when none, positions from 0)
Index(s, sep) ==
    LET hits == {i \in 1..(Len(s) - Len(sep) + 1) : SubSeq(s, i, i + Len(sep) - 1) = sep}
    IN  IF hits = {} THEN 0 ELSE CHOOSE i \in hits : \A j \in hits : i <= j

\* strings.Split(s, sep) for a non-empty sep: cut at the first occurrence,
\* then split what follows it
RECURSIVE Split(_, _)
Split(s, sep) ==
    LET m == Index(s, sep)
    IN  IF m = 0
        THEN <<s>>
        ELSE <<SubSeq(s, 1, m - 1)>> \o Split(SubSeq(s, m + Len(sep), Len(s)), sep)

\* strings.Count(s, sep) for a non-empty sep: the number of non-overlapping
\* occurrences of sep in s, counted from the left
RECURSIVE Count(_, _)
Count(s, sep) ==
    LET m == Index(s, sep)
    IN  IF m = 0 THEN 0 ELSE 1 + Count(SubSeq(s, m + Len(sep), Len(s)), sep)

\* strings.Replace(s, old, new, 1) for a non-empty old: the first occurrence
\* of old replaced
ReplaceFirst(s, old, new) ==
    LET m == Index(s, old)
    IN  IF m = 0 THEN s
        ELSE SubSeq(s, 1, m - 1) \o new \o SubSeq(s, m + Len(old), Len(s))

\* fmt.Sprintf("%s__%s", serverName, tool.Name)
QualifiedName(serverName, toolName) == serverName \o Sep \o toolName

\* fmt.Errorf("invalid tool name format: %s", name)
InvalidFormatErr(name) == <<"invalid tool name format: ">> \o name

\* fmt.Errorf("server %s not found", serverName)
ServerNotFoundErr_NoName(serverName) == <<"server not found">>

ServerNotFoundErr(serverName) == <<"server ">> \o serverName \o <<" not found">>

\* fmt.Errorf("failed to call tool: %w", err)
CallFailedErr(err) == <<"failed to call tool: ">> \o err

----------------------------------------------------------------------------
(* parseToolName *)

parseToolName_AtLeastTwo(name) ==
    LET parts == Split(name, Sep)
    IN  IF Len(parts) < 2
        THEN [server |-> <<>>, tool |-> <<>>, err |-> InvalidFormatErr(name)]
        ELSE [server |-> parts[1], tool |-> parts[2], err |-> NoErr]

parseToolName_RejectEmptyParts(name) ==
    LET parts == Split(name, Sep)
    IN  IF Len(parts) # 2 \/ parts[1] = <<>> \/ parts[2] = <<>>
        THEN [server |-> <<>>, tool |-> <<>>, err |-> InvalidFormatErr(name)]
        ELSE [server |-> parts[1], tool |-> parts[2], err |-> NoErr]

parseToolName(name) ==
    LET parts == Split(name, Sep)
    IN  IF Len(parts) # 2
        THEN [server |-> <<>>, tool |-> <<>>, err |-> InvalidFormatErr(name)]
        ELSE [server |-> parts[1], tool |-> parts[2], err |-> NoErr]

NotParsed == [server |-> <<>>, tool |-> <<>>, err |-> NoErr]

----------------------------------------------------------------------------
(* The registry, the catalog and the router: pkg/mcp Client *)

\* the provider names a configuration may use and the tool names a provider
\* may advertise (names are arbitrary text: nothing in LoadConfig, NewClient
\* or GetTools restricts them)
ProviderNames == {<<"a">>, <<"a", "_">>}
ToolNames == {<<"b">>, <<"_", "b">>, <<"b", "_", "_", "c">>}
\* a provider's tool list: its tools have pairwise different names
ToolLists ==
    {<<>>} \cup {<<t>> : t \in ToolNames} \cup {<<<<"b">>, <<"_", "b">>>>}

\* a session is known by the tools its provider advertises
Registries ==
    UNION {[S -> [tools : ToolLists]] : S \in SUBSET ProviderNames}

\* the arguments of a call, opaque to the router
Args == {"{}", "{k:1}"}

\* what a provider's session answers to a forwarded call
NilResult == [kind |-> "nil", body |-> <<>>]
Results == {[kind |-> "struct", body |-> <<"r">>]}
SessionErrs == {<<"boom">>}
SessionOutcomes ==
    {[ok |-> TRUE, result |-> r, err |-> NoErr] : r \in Results}
    \cup {[ok |-> FALSE, result |-> NilResult, err |-> e] : e \in SessionErrs}

\* the orders in which a range over a Go map may visit the keys S
Orders(S) ==
    {o \in [1..Cardinality(S) -> S] : \A i, j \in 1..Cardinality(S) : o[i] = o[j] => i = j}

\* GetTools' loops: for each session in the order visited, skip it when
\* ListTools fails, else one entry per advertised tool; the entries are
\* (serverName, tool.Name) pairs here and renamed by Catalog below
RECURSIVE Listed_StopAtFailure(_, _, _)
Listed_StopAtFailure(sess, order, failing) ==
    IF order = <<>>
    THEN <<>>
    ELSE LET p == Head(order)
         IN  IF p \in failing
             THEN <<>>
             ELSE [i \in 1..Len(sess[p].tools) |->
                      [server |-> p, tool |-> sess[p].tools[i]]]
                  \o Listed_StopAtFailure(sess, Tail(order), failing)

RECURSIVE Listed(_, _, _)
Listed(sess, order, failing) ==
    IF order = <<>>
    THEN <<>>
    ELSE LET p == Head(order)
             own == IF p \in failing
                    THEN <<>>
                    ELSE [i \in 1..Len(sess[p].tools) |->
                             [server |-> p, tool |-> sess[p].tools[i]]]
         IN  own \o Listed(sess, Tail(order), failing)

\* the api.Tool built for one advertised tool
ToolEntry(serverName, toolName) ==
    [Type |-> "function", Name |-> QualifiedName(serverName, toolName)]

Catalog(listed) ==
    [i \in 1..Len(listed) |-> ToolEntry(listed[i].server, listed[i].tool)]

\* Client.GetTools on the registry sess: allTools and the error returned
GetToolsResult(sess, order, failing) ==
    [tools |-> Catalog(Listed(sess, order, failing)), err |-> NoErr]

\* no GetTools yet
NoListing == [done |-> FALSE, failed |-> {}, err |-> NoErr]

\* Client.CallTool(name, args) on the registry sess, the session (if one is
\* reached) answering out
CallTool_NoArgs(sess, name, args, out) ==
    LET p == parseToolName(name)
    IN  IF p.err # NoErr
        THEN [name |-> name, args |-> args, result |-> NilResult, err |-> p.err,
              lookups |-> <<>>, fwd |-> <<>>]
        ELSE IF p.server \notin DOMAIN sess
        THEN [name |-> name, args |-> args, result |-> NilResult,
              err |-> ServerNotFoundErr(p.server),
              lookups |-> <<p.server>>, fwd |-> <<>>]
        ELSE [name |-> name, args |-> args,
              result |-> IF out.ok THEN out.result ELSE NilResult,
              err |-> IF out.ok THEN NoErr ELSE CallFailedErr(out.err),
              lookups |-> <<p.server>>,
              fwd |-> <<[server |-> p.server, tool |-> p.tool, args |-> "{}"]>>]

CallTool(sess, name, args, out) ==
    LET p == parseToolName(name)
    IN  IF p.err # NoErr
        THEN [name |-> name, args |-> args, result |-> NilResult, err |-> p.err,
              lookups |-> <<>>, fwd |-> <<>>]
        ELSE IF p.server \notin DOMAIN sess
        THEN [name |-> name, args |-> args, result |-> NilResult,
              err |-> ServerNotFoundErr(p.server),
              lookups |-> <<p.server>>, fwd |-> <<>>]
        ELSE [name |-> name, args |-> args,
              result |-> IF out.ok THEN out.result ELSE NilResult,
              err |-> IF out.ok THEN NoErr ELSE CallFailedErr(out.err),
              lookups |-> <<p.server>>,
              fwd |-> <<[server |-> p.server, tool |-> p.tool, args |-> args]>>]

\* CallTool, lines 178-198: c.sessions is read (line 184) and not written:
\* the session map after the call r
SessionsAfterCall_EvictOnFailure(sess, r) ==
    IF r.fwd # <<>> /\ r.err # NoErr
    THEN [p \in DOMAIN sess \ {r.fwd[1].server} |-> sess[p]]
    ELSE sess

SessionsAfterCall(sess, r) == sess

NoCall == [name |-> <<>>, args |-> "{}", result |-> NilResult, err |-> NoErr,
           lookups |-> <<>>, fwd |-> <<>>]

\* MCPServer.Type as a configuration may give it: absent (the empty string),
\* "stdio" or "sse"
ServerTypes == {"", "stdio", "sse"}

\* the configurations: each configured provider with its type and the tools
\* it would advertise once connected
ConfigsOf(types) ==
    UNION {[S -> [tools : ToolLists, Type : types]] : S \in SUBSET ProviderNames}

\* the configurations of SpecMCP: no provider gives a type
Configs == ConfigsOf({""})

\* the configurations of SpecLife: every type
TypedConfigs == ConfigsOf(ServerTypes)

\* connectToServer, lines 80-105: the transport chosen for a server
Transport_StdioWhenNamed(server) ==
    IF server.Type = "stdio" THEN "stdio" ELSE "sse"

Transport(server) ==
    IF server.Type = "sse" THEN "sse" ELSE "stdio"

\* the session connectToServer stores: the transport it is bound over and
\* the tools its provider advertises
Session(server) == [tools |-> server.tools, transport |-> Transport(server)]

\* fmt.Errorf("failed to connect to server: %w", err)
ConnectFailedErr == <<"failed to connect to server: ", "connect error">>

\* connectToServer(name, server) on the session map sess, ok telling whether
\* mcpClient.Connect succeeds: the map after it and the error returned
connectToServer_StoreBeforeCheck(sess, name, server, ok) ==
    [sessions |-> [p \in DOMAIN sess \cup {name} |->
                      IF p = name THEN Session(server) ELSE sess[p]],
     err |-> IF ok THEN NoErr ELSE ConnectFailedErr]

connectToServer(sess, name, server, ok) ==
    IF ok
    THEN [sessions |-> [p \in DOMAIN sess \cup {name} |->
                          IF p = name THEN Session(server) ELSE sess[p]],
          err |-> NoErr]
    ELSE [sessions |-> sess, err |-> ConnectFailedErr]

\* NewClient's loop over config.MCPServers in the order visited, from the
\* empty map: a failed connect is reported on stderr and the loop goes on
RECURSIVE ConnectAll(_, _, _, _)
ConnectAll(sess, cfg, order, okSet) ==
    IF order = <<>>
    THEN sess
    ELSE LET name == Head(order)
             c == connectToServer(sess, name, cfg[name], name \in okSet)
         IN  ConnectAll(c.sessions, cfg, Tail(order), okSet)

\* NewClient(ctx, config): the client and the error returned
NewClient(cfg, order, okSet) ==
    [sessions |-> ConnectAll(<<>>, cfg, order, okSet), err |-> NoErr]

\* the error of a session.Close that fails
SessionCloseErrs == {<<"exit status 1">>}

\* Client.Close's loop: session.Close() on each session in the order
\* visited; each entry is the session closed and what its Close returned
CloseSessions_StopAtFirstError(order, failing, e) ==
    LET bad == {i \in DOMAIN order : order[i] \in failing}
        last == IF bad = {} THEN Len(order)
                ELSE CHOOSE i \in bad : \A j \in bad : i <= j
    IN  [i \in 1..last |->
            [server |-> order[i], err |-> IF order[i] \in failing THEN e ELSE NoErr]]

CloseSessions(order, failing, e) ==
    [i \in 1..Len(order) |->
        [server |-> order[i], err |-> IF order[i] \in failing THEN e ELSE NoErr]]

\* fmt's %v of a []error: the messages between brackets, separated by spaces
RECURSIVE JoinErrs(_)
JoinErrs(errs) ==
    IF errs = <<>> THEN <<>>
    ELSE IF Len(errs) = 1 THEN errs[1]
    ELSE errs[1] \o <<" ">> \o JoinErrs(Tail(errs))

RECURSIVE FailedOnly(_)
FailedOnly(log) ==
    IF log = <<>> THEN <<>>
    ELSE (IF Head(log).err # NoErr THEN <<Head(log).err>> ELSE <<>>)
         \o FailedOnly(Tail(log))

\* Client.Close's return value: nil when errs is empty, else
\* fmt.Errorf("failed to close some connections: %v", errs)
CloseResult(log) ==
    LET errs == FailedOnly(log)
    IN  IF Len(errs) > 0
        THEN <<"failed to close some connections: ", "[">> \o JoinErrs(errs) \o <<"]">>
        ELSE NoErr

----------------------------------------------------------------------------
(* Messages, inference responses and the streaming fold: mcp_agent *)

\* api.Message{}: the zero value
ZeroMessage == [Role |-> "", Content |-> <<>>, ToolCalls |-> <<>>, ToolName |-> <<>>]

UserMessage(text) ==
    [Role |-> "user", Content |-> text, ToolCalls |-> <<>>, ToolName |-> <<>>]

\* api.Message{Role: "tool", Content: toolResult, ToolName: toolCall.Function.Name}
ToolMessage_NoName(toolResult, toolCall) ==
    [Role |-> "tool", Content |-> toolResult, ToolCalls |-> <<>>, ToolName |-> <<>>]

ToolMessage(toolResult, toolCall) ==
    [Role |-> "tool", Content |-> toolResult, ToolCalls |-> <<>>,
     ToolName |-> toolCall.Name]

\* json.MarshalIndent(v, "", "  ") of a structured result
MarshalIndent(v) == <<"{", "\n", " ", " ">> \o v.body \o <<"\n", "}">>

\* formatToolResult: a string or a byte slice as it is, anything else as
\* indented JSON
formatToolResult(result) ==
    IF result.kind \in {"string", "bytes"} THEN result.body ELSE MarshalIndent(result)

\* Run, line 230: the preview length handed to truncateString
PreviewLen == 500

\* truncateString(s, maxLen): s when it has at most maxLen bytes, else its
\* first maxLen bytes and the marker
truncateString(s, maxLen) ==
    IF Len(s) <= maxLen THEN s ELSE SubSeq(s, 1, maxLen) \o <<"... (truncated)">>

\* fmt.Sprintf("Error: %v", err)
ErrorText_NoDetail(err) == <<"Error: ">>

ErrorText(err) == <<"Error: ">> \o err

\* Run, lines 220-241: what one tool call leaves in the conversation, r being
\* what CallTool returned for it
AppendToolResult_DropOnError(conv, toolCall, r) ==
    IF r.err # NoErr
    THEN conv
    ELSE Append(conv, ToolMessage(formatToolResult(r.result), toolCall))

AppendToolResult_StorePreview(conv, toolCall, r) ==
    LET toolResult == IF r.err # NoErr
                      THEN ErrorText(r.err)
                      ELSE truncateString(formatToolResult(r.result), PreviewLen)
    IN  Append(conv, ToolMessage(toolResult, toolCall))

AppendToolResult(conv, toolCall, r) ==
    LET toolResult == IF r.err # NoErr
                      THEN ErrorText(r.err)
                      ELSE formatToolResult(r.result)
    IN  Append(conv, ToolMessage(toolResult, toolCall))

\* Run, lines 215 and 222-230: what one tool call writes out, the call, then
\* the error or the preview of the formatted result
PrintToolResult(out, toolCall, r) ==
    out \o <<[kind |-> "tool", text |-> toolCall.Name]>>
        \o (IF r.err # NoErr
            THEN <<[kind |-> "error", text |-> r.err]>>
            ELSE <<[kind |-> "result",
                    text |-> truncateString(formatToolResult(r.result), PreviewLen)]>>)

\* what the model may say and ask for
UserTexts == {<<"hello">>}
Contents == {<<>>, <<"text">>}
CallNames == {<<"a", "_", "_", "b">>, <<"c", "_", "_", "b">>, <<"b">>}
ToolCallSet == [Name : CallNames, Arguments : {"{}"}]
ToolCallSeqs(n) == UNION {[1..k -> ToolCallSet] : k \in 0..n}

\* the complete responses of the inference provider (non-streaming)
Responses ==
    [Role : {"assistant"}, Content : Contents,
     ToolCalls : ToolCallSeqs(MaxToolCalls), ToolName : {<<>>}]

\* the errors of the inference provider
InferenceErrs == {<<"connection refused">>}

\* the fragments of a streamed response: api.ChatResponse
FragmentsOf(contents) ==
    [Message : [Role : {"assistant"}, Content : contents,
                ToolCalls : ToolCallSeqs(1), ToolName : {<<>>}],
     Done : BOOLEAN]

Fragments == FragmentsOf({<<>>, <<"x">>})

\* a stream is a finite sequence of fragments of which the last, and only
\* the last, is the completion fragment
Streams(n) ==
    {fs \in UNION {[1..k -> Fragments] : k \in 1..(n + 1)} :
        \A i \in 1..Len(fs) : fs[i].Done <=> i = Len(fs)}

\* runInferenceStreaming's finalMessage and contentBuilder before the first fragment
ZeroAcc == [finalMessage |-> ZeroMessage, contentBuilder |-> <<>>]

\* respFunc of runInferenceStreaming, called with one fragment
respFunc_LastContent(a, resp) ==
    LET cb == IF resp.Message.Content # <<>>
              THEN a.contentBuilder \o resp.Message.Content
              ELSE a.contentBuilder
        fm1 == IF resp.Done THEN resp.Message ELSE a.finalMessage
        fm2 == IF Len(resp.Message.ToolCalls) > 0
               THEN [fm1 EXCEPT !.ToolCalls = @ \o resp.Message.ToolCalls]
               ELSE fm1
    IN  [finalMessage |-> fm2, contentBuilder |-> cb]

respFunc(a, resp) ==
    LET cb == IF resp.Message.Content # <<>>
              THEN a.contentBuilder \o resp.Message.Content
              ELSE a.contentBuilder
        fm1 == IF resp.Done
               THEN [resp.Message EXCEPT !.Content = cb]
               ELSE a.finalMessage
        fm2 == IF Len(resp.Message.ToolCalls) > 0
               THEN [fm1 EXCEPT !.ToolCalls = @ \o resp.Message.ToolCalls]
               ELSE fm1
    IN  [finalMessage |-> fm2, contentBuilder |-> cb]

\* respFunc of runInferenceStreaming, lines 310-311: the text of every
\* fragment is printed as it arrives
RECURSIVE PrintFragments(_, _)
PrintFragments(out, fs) ==
    IF fs = <<>> THEN out
    ELSE PrintFragments(
            IF Head(fs).Message.Content # <<>>
            THEN Append(out, [kind |-> "assistant", text |-> Head(fs).Message.Content])
            ELSE out,
            Tail(fs))

\* ollamaClient.Chat(ctx, req, respFunc) on a whole stream: respFunc on each
\* fragment in order
RECURSIVE ChatStream(_, _)
ChatStream(a, fs) ==
    IF fs = <<>> THEN a ELSE ChatStream(respFunc(a, Head(fs)), Tail(fs))

\* runInferenceStreaming's return value for a stream that does not fail
StreamedMessage(fs) == ChatStream(ZeroAcc, fs).finalMessage

----------------------------------------------------------------------------
(* Specification SpecParse: parseToolName on one input *)

ParseIdle ==
    /\ pName = <<>> /\ tName = <<>> /\ qName = <<>>
    /\ parsed = NotParsed /\ parsePc = "idle"

MCPIdle ==
    /\ sessions = <<>> /\ catalog = <<>> /\ origin = <<>>
    /\ lastCall = NoCall /\ forwarded = <<>> /\ nCalls = 0
    /\ listing = NoListing

RunIdle ==
    /\ pc = "idle" /\ stream = FALSE /\ userInput = <<>>
    /\ tools = <<>> /\ conversation = <<>>
    /\ message = ZeroMessage /\ idx = 0 /\ runErr = NoErr

StreamIdle ==
    /\ received = <<>> /\ acc = ZeroAcc /\ streamPc = "idle"

GuardIdle ==
    /\ gpc = <<>> /\ inputLock = 0 /\ isProcessing = FALSE

LifeIdle ==
    /\ config = <<>> /\ mcpPc = "idle" /\ connectOK = {} /\ newErr = NoErr
    /\ closed = <<>> /\ closeErr = NoErr

PrintIdle == printed = <<>>
ConfigIdle == cfgFile = <<>> /\ loaded = <<>>
FilesIdle == files = <<>> /\ toolIn = <<>> /\ toolOut = <<>>
EditRunIdle == ran = <<>> /\ lastErr = <<>>
SideIdle == ConfigIdle /\ FilesIdle /\ EditRunIdle

ParseInit ==
    /\ pName \in Names(1, MaxPart)
    /\ tName \in Names(1, MaxPart)
    /\ qName = <<>>
    /\ parsed = NotParsed
    /\ parsePc = "input"
    /\ MCPIdle /\ RunIdle /\ StreamIdle /\ GuardIdle /\ LifeIdle /\ PrintIdle
    /\ SideIdle

\* parseToolName(fmt.Sprintf("%s__%s", p, t)): the name GetTools builds
ParseQualified ==
    /\ parsePc = "input"
    /\ qName' = QualifiedName(pName, tName)
    /\ parsed' = parseToolName(qName')
    /\ parsePc' = "parsed"
    /\ UNCHANGED <<pName, tName, mcpVars, runVars, streamVars, guardVars, lifeVars, printed, sideVars>>

\* parseToolName(name) for any name
ParseAny ==
    /\ parsePc = "input"
    /\ \E name \in Names(0, MaxName) :
          /\ qName' = name
          /\ parsed' = parseToolName(name)
    /\ parsePc' = "parsed"
    /\ UNCHANGED <<pName, tName, mcpVars, runVars, streamVars, guardVars, lifeVars, printed, sideVars>>

ParseNext == ParseQualified \/ ParseAny

SpecParse == ParseInit /\ [][ParseNext]_vars

----------------------------------------------------------------------------
(* Specification SpecMCP: a registry, its catalog and calls through it *)

\* names a caller (the model's ToolCall) may hand to CallTool besides the
\* catalog's
OtherNames ==
    {<<>>, <<"b">>, <<"a", "_", "_", "b">>, <<"c", "_", "_", "b">>,
     <<"a", "_", "_", "b", "_", "_", "c">>, <<"a", "_", "_", "_", "b">>,
     <<"_", "_", "b">>, <<"a", "_", "_">>, <<"_", "_">>}

RegistryInit(cfgs) ==
    /\ config \in cfgs
    /\ mcpPc = "new"
    /\ connectOK = {}
    /\ newErr = NoErr
    /\ closed = <<>>
    /\ closeErr = NoErr
    /\ printed = <<>>
    /\ sessions = <<>>
    /\ catalog = <<>>
    /\ origin = <<>>
    /\ lastCall = NoCall
    /\ forwarded = <<>>
    /\ nCalls = 0
    /\ listing = NoListing
    /\ ParseIdle /\ RunIdle /\ StreamIdle /\ GuardIdle
    /\ SideIdle

MCPInit == RegistryInit(Configs)

\* NewClient: every configured provider is connected to, in the order the
\* map is visited; each Connect succeeds or fails
NewClientAct ==
    /\ mcpPc = "new"
    /\ \E order \in Orders(DOMAIN config), okSet \in SUBSET (DOMAIN config) :
          LET c == NewClient(config, order, okSet)
          IN  /\ sessions' = c.sessions
              /\ newErr' = c.err
              /\ connectOK' = okSet
    /\ mcpPc' = "ready"
    /\ UNCHANGED <<catalog, origin, lastCall, forwarded, nCalls, listing, config, closed,
                   closeErr, printed, parseVars, runVars, streamVars, guardVars, sideVars>>

\* Client.Close
CloseAct ==
    /\ mcpPc = "ready"
    /\ \E order \in Orders(DOMAIN sessions), failing \in SUBSET (DOMAIN sessions),
          e \in SessionCloseErrs :
          /\ closed' = CloseSessions(order, failing, e)
          /\ closeErr' = CloseResult(closed')
    /\ mcpPc' = "closed"
    /\ UNCHANGED <<mcpVars, config, connectOK, newErr, printed,
                   parseVars, runVars, streamVars, guardVars, sideVars>>

\* the names "<provider>__<tool>" of the configured providers that have no
\* session (the names of the others come with the catalogue)
ConfiguredNames ==
    {QualifiedName(p, t) : p \in DOMAIN config \ DOMAIN sessions, t \in ToolNames}

GetTools ==
    /\ mcpPc = "ready"
    /\ \E order \in Orders(DOMAIN sessions), failing \in SUBSET (DOMAIN sessions) :
          LET listed == Listed(sessions, order, failing)
              r == GetToolsResult(sessions, order, failing)
          IN  /\ catalog' = r.tools
              /\ origin' = listed
              /\ listing' = [done |-> TRUE, failed |-> failing, err |-> r.err]
    /\ UNCHANGED <<sessions, lastCall, forwarded, nCalls, parseVars, runVars, streamVars, guardVars, lifeVars, printed, sideVars>>

CallToolAct ==
    /\ mcpPc = "ready"
    /\ nCalls < MaxRouterCalls
    /\ \E name \in OtherNames \cup {catalog[i].Name : i \in DOMAIN catalog}
                             \cup ConfiguredNames,
          args \in Args, out \in SessionOutcomes :
          LET r == CallTool(sessions, name, args, out)
          IN  /\ lastCall' = r
              /\ forwarded' = forwarded \o r.fwd
              /\ sessions' = SessionsAfterCall(sessions, r)
    /\ nCalls' = nCalls + 1
    /\ UNCHANGED <<catalog, origin, listing, parseVars, runVars, streamVars, guardVars, lifeVars, printed, sideVars>>

MCPNext == NewClientAct \/ GetTools \/ CallToolAct

SpecMCP == MCPInit /\ [][MCPNext]_vars

\* Specification SpecLife: the registry from NewClient to Close
LifeNext == NewClientAct \/ CloseAct

LifeInit == RegistryInit(TypedConfigs)

SpecLife == LifeInit /\ [][LifeNext]_vars

----------------------------------------------------------------------------
(* Specification SpecStream: runInferenceStreaming on one streamed response *)

StreamInit ==
    /\ received = <<>>
    /\ acc = ZeroAcc
    /\ streamPc = "open"
    /\ ParseIdle /\ MCPIdle /\ RunIdle /\ GuardIdle /\ LifeIdle /\ PrintIdle
    /\ SideIdle

\* the next fragment arrives and Chat calls respFunc with it; after the
\* completion fragment Chat returns nil and runInferenceStreaming returns
\* finalMessage
StreamFragment ==
    /\ streamPc = "open"
    /\ \E resp \in FragmentsOf({<<>>, <<"x">>, <<"y">>}) :
          /\ ~resp.Done => Len(received) < MaxFrags
          /\ received' = Append(received, resp)
          /\ acc' = respFunc(acc, resp)
          /\ printed' = PrintFragments(printed, <<resp>>)
          /\ streamPc' = IF resp.Done THEN "returned" ELSE "open"
    /\ UNCHANGED <<parseVars, mcpVars, runVars, guardVars, lifeVars, sideVars>>

\* Chat returns an error: runInferenceStreaming returns api.Message{} and
\* the wrapped error
StreamFails ==
    /\ streamPc = "open"
    /\ acc' = [acc EXCEPT !.finalMessage = ZeroMessage]
    /\ streamPc' = "failed"
    /\ UNCHANGED <<received, parseVars, mcpVars, runVars, guardVars, lifeVars, printed, sideVars>>

StreamNext == StreamFragment \/ StreamFails

SpecStream == StreamInit /\ [][StreamNext]_vars

----------------------------------------------------------------------------
(* Specification SpecGuard: concurrent callers of the inference methods *)

Callers == 1..NumCallers

GuardInit ==
    /\ gpc = [c \in Callers |-> "idle"]
    /\ inputLock = 0
    /\ isProcessing = FALSE
    /\ ParseIdle /\ MCPIdle /\ RunIdle /\ StreamIdle /\ LifeIdle /\ PrintIdle
    /\ SideIdle

otherVars == <<parseVars, mcpVars, runVars, streamVars, lifeVars, printed, sideVars>>

\* a caller enters runInference: it is at a.InputLock()
EnterInference(c) ==
    /\ gpc[c] = "idle"
    /\ gpc' = [gpc EXCEPT ![c] = "InputLock"]
    /\ UNCHANGED <<inputLock, isProcessing, otherVars>>

\* a caller enters runInferenceStreaming: it builds the request and is at
\* a.ollamaClient.Chat
EnterStreaming(c) ==
    /\ gpc[c] = "idle"
    /\ gpc' = [gpc EXCEPT ![c] = "stream.send"]
    /\ UNCHANGED <<inputLock, isProcessing, otherVars>>

\* InputLock: a.inputLock.Lock()
InputLockAcquire(c) ==
    /\ gpc[c] = "InputLock"
    /\ inputLock = 0
    /\ inputLock' = c
    /\ gpc' = [gpc EXCEPT ![c] = "InputLock.set"]
    /\ UNCHANGED <<isProcessing, otherVars>>

\* InputLock: a.isProcessing = true
InputLockSet(c) ==
    /\ gpc[c] = "InputLock.set"
    /\ isProcessing' = TRUE
    /\ gpc' = [gpc EXCEPT ![c] = "InputLock.unlock"]
    /\ UNCHANGED <<inputLock, otherVars>>

\* InputLock: the deferred a.inputLock.Unlock(); InputLock returns
InputLockRelease(c) ==
    /\ gpc[c] = "InputLock.unlock"
    /\ inputLock' = 0
    /\ gpc' = [gpc EXCEPT ![c] = "send"]
    /\ UNCHANGED <<isProcessing, otherVars>>

\* runInference's a.ollamaClient.Chat: the request is sent, the exchange is
\* in flight
ChatSend(c) ==
    /\ gpc[c] = "send"
    /\ gpc' = [gpc EXCEPT ![c] = "chat"]
    /\ UNCHANGED <<inputLock, isProcessing, otherVars>>

\* runInferenceStreaming's a.ollamaClient.Chat: the request is sent
ChatSendStreaming(c) ==
    /\ gpc[c] = "stream.send"
    /\ gpc' = [gpc EXCEPT ![c] = "stream.chat"]
    /\ UNCHANGED <<inputLock, isProcessing, otherVars>>

\* Chat returns to runInferenceStreaming, which returns
ChatReturnStreaming(c) ==
    /\ gpc[c] = "stream.chat"
    /\ gpc' = [gpc EXCEPT ![c] = "idle"]
    /\ UNCHANGED <<inputLock, isProcessing, otherVars>>

\* Chat returns to runInference, whose deferred a.InputUnLock() runs
ChatReturn(c) ==
    /\ gpc[c] = "chat"
    /\ gpc' = [gpc EXCEPT ![c] = "InputUnLock"]
    /\ UNCHANGED <<inputLock, isProcessing, otherVars>>

\* InputUnLock: a.inputLock.Lock()
InputUnLockAcquire(c) ==
    /\ gpc[c] = "InputUnLock"
    /\ inputLock = 0
    /\ inputLock' = c
    /\ gpc' = [gpc EXCEPT ![c] = "InputUnLock.set"]
    /\ UNCHANGED <<isProcessing, otherVars>>

\* InputUnLock: a.isProcessing = false
InputUnLockSet(c) ==
    /\ gpc[c] = "InputUnLock.set"
    /\ isProcessing' = FALSE
    /\ gpc' = [gpc EXCEPT ![c] = "InputUnLock.unlock"]
    /\ UNCHANGED <<inputLock, otherVars>>

\* InputUnLock: the deferred a.inputLock.Unlock(); runInference returns
InputUnLockRelease(c) ==
    /\ gpc[c] = "InputUnLock.unlock"
    /\ inputLock' = 0
    /\ gpc' = [gpc EXCEPT ![c] = "idle"]
    /\ UNCHANGED <<isProcessing, otherVars>>

GuardNext ==
    \E c \in Callers :
        \/ EnterInference(c)
        \/ EnterStreaming(c)
        \/ InputLockAcquire(c)
        \/ InputLockSet(c)
        \/ InputLockRelease(c)
        \/ ChatSend(c)
        \/ ChatSendStreaming(c)
        \/ ChatReturnStreaming(c)
        \/ ChatReturn(c)
        \/ InputUnLockAcquire(c)
        \/ InputUnLockSet(c)
        \/ InputUnLockRelease(c)

SpecGuard == GuardInit /\ [][GuardNext]_vars

----------------------------------------------------------------------------
(* Specification Spec: main of mcp_agent from the inference client on, and
   Agent.Run *)

\* the registry the run was given by main (NewClient): one live provider
RunRegistry == (<<"a">> :> [tools |-> <<<<"b">>>>])

\* the error of an api.ClientFromEnvironment that fails
ClientInitErrs == {<<"invalid OLLAMA_HOST">>}

\* Run's inner loop, lines 196-198: the text of a response is printed
\* unless the agent streams
PrintMessage(out, msg, streaming) ==
    IF ~streaming /\ msg.Content # <<>>
    THEN Append(out, [kind |-> "assistant", text |-> msg.Content])
    ELSE out

\* main, lines 82-84: the error Run returned is printed
PrintRunError(out, err) ==
    IF err # NoErr
    THEN Append(out, [kind |-> "error", text |-> <<"Error: ">> \o err])
    ELSE out

\* log.Fatalf("Failed to initialize Ollama client: %v", err)
PrintFatal(out, err) ==
    Append(out, [kind |-> "fatal", text |-> <<"Failed to initialize Ollama client: ">> \o err])

\* Run's inner loop, lines 201-203 and 246: whether the response asks for
\* tools
hasToolUse_Never(msg) == FALSE

hasToolUse(msg) == Len(msg.ToolCalls) > 0

\* what the prompt can read: nothing, or some text
UserInputs == UserTexts \cup {<<>>}

\* the errors of survey.AskOne
InputErrs == {<<"EOF">>}

\* Run, lines 149-154: an empty input is skipped
SkipInput_Never(text) == FALSE

SkipInput(text) == text = <<>>

\* Run, lines 141-146 and 277: what Run returns when the prompt failed with e
InputFailure_Returned(e) == e

InputFailure(e) == NoErr

\* Run, lines 176-187 and 255-259: what Run returns when an inference
\* failed with e; runInferenceStreaming wraps the error, runInference does
\* not
InferenceFailure_Swallowed(e, streamed) == NoErr

InferenceFailure(e, streamed) ==
    IF streamed THEN <<"chat streaming error: ">> \o e ELSE e

\* Run, lines 191 and 261: conversation = append(conversation, message)
AppendResponse_ReplaceLast(conv, msg) ==
    IF conv = <<>> THEN <<msg>> ELSE [conv EXCEPT ![Len(conv)] = msg]

AppendResponse(conv, msg) == Append(conv, msg)

\* Run, line 209: the range over message.ToolCalls visits them in order
NextToolCall_Reversed(msg, i) == msg.ToolCalls[Len(msg.ToolCalls) + 1 - i]

NextToolCall(msg, i) == msg.ToolCalls[i]

Init ==
    /\ pc = "main"
    /\ stream \in BOOLEAN
    /\ userInput = <<>>
    /\ tools = <<>>
    /\ conversation = <<>>
    /\ message = ZeroMessage
    /\ idx = 0
    /\ runErr = NoErr
    /\ sessions = RunRegistry
    /\ config = RunRegistry /\ mcpPc = "ready" /\ connectOK = DOMAIN RunRegistry
    /\ newErr = NoErr /\ closed = <<>> /\ closeErr = NoErr
    /\ printed = <<>>
    /\ catalog = <<>> /\ origin = <<>>
    /\ lastCall = NoCall /\ forwarded = <<>> /\ nCalls = 0
    /\ listing = NoListing
    /\ ParseIdle /\ StreamIdle /\ GuardIdle
    /\ SideIdle

\* the conversation has room for a response with these tool calls, their
\* tool messages and the response that follows them
Fits(msg) ==
    Len(conversation) + 1
        + (IF Len(msg.ToolCalls) > 0 THEN Len(msg.ToolCalls) + 1 ELSE 0) <= MaxMsgs

\* Run appends the response and enters the inner loop: with tool calls the
\* range over them starts, without any the inner loop breaks and the outer
\* loop asks for input again
AfterResponse(msg, out) ==
    /\ message' = msg
    /\ conversation' = AppendResponse(conversation, msg)
    /\ printed' = PrintMessage(out, msg, stream)
    /\ IF hasToolUse(msg)
       THEN pc' = "tools" /\ idx' = 1
       ELSE pc' = "await" /\ idx' = 0

\* main, lines 71-74: api.ClientFromEnvironment fails and log.Fatalf ends
\* the process at once; the deferred mcpClient.Close() does not run
OllamaClientFails ==
    /\ pc = "main"
    /\ \E e \in ClientInitErrs : printed' = PrintFatal(printed, e)
    /\ pc' = "exited"
    /\ UNCHANGED <<stream, userInput, tools, conversation, message, idx, runErr,
                   mcpVars, lifeVars, parseVars, streamVars, guardVars, sideVars>>

\* main, lines 71-81: the inference client is there, Run is called
OllamaClientOK ==
    /\ pc = "main"
    /\ pc' = "start"
    /\ UNCHANGED <<stream, userInput, tools, conversation, message, idx, runErr,
                   mcpVars, lifeVars, printed, parseVars, streamVars, guardVars, sideVars>>

\* main, lines 81-85 and 64: Run has returned, its error is printed, main
\* returns and the deferred mcpClient.Close() runs, its result dropped
MainReturns ==
    /\ pc = "returned"
    /\ printed' = PrintRunError(printed, runErr)
    /\ \E order \in Orders(DOMAIN sessions), failing \in SUBSET (DOMAIN sessions),
          e \in SessionCloseErrs :
          /\ closed' = CloseSessions(order, failing, e)
          /\ closeErr' = CloseResult(closed')
    /\ mcpPc' = "closed"
    /\ pc' = "exited"
    /\ UNCHANGED <<stream, userInput, tools, conversation, message, idx, runErr,
                   mcpVars, config, connectOK, newErr,
                   parseVars, streamVars, guardVars, sideVars>>

\* Run, lines 117-133: fetch the catalog once
RunStart ==
    /\ pc = "start"
    /\ \E order \in Orders(DOMAIN sessions), failing \in SUBSET (DOMAIN sessions) :
          LET listed == Listed(sessions, order, failing)
              r == GetToolsResult(sessions, order, failing)
          IN  /\ tools' = r.tools
              /\ catalog' = r.tools
              /\ origin' = listed
              /\ listing' = [done |-> TRUE, failed |-> failing, err |-> r.err]
    /\ pc' = "await"
    /\ UNCHANGED <<stream, userInput, conversation, message, idx, runErr,
                   sessions, lastCall, forwarded, nCalls, parseVars, streamVars, guardVars, lifeVars, printed, sideVars>>

\* survey.AskOne fails (end of input, interrupt at the prompt): break, and
\* Run returns nil
AskFails ==
    /\ pc = "await"
    /\ pc' = "returned"
    /\ userInput' = <<>>
    /\ \E e \in InputErrs : runErr' = InputFailure(e)
    /\ UNCHANGED <<stream, tools, conversation, message, idx,
                   mcpVars, parseVars, streamVars, guardVars, lifeVars, printed, sideVars>>

\* survey.AskOne returns "": continue
AskEmpty ==
    /\ pc = "await"
    /\ \E text \in UserInputs :
          /\ SkipInput(text)
          /\ userInput' = text
    /\ UNCHANGED <<pc, stream, tools, conversation, message, idx, runErr,
                   mcpVars, parseVars, streamVars, guardVars, lifeVars, printed, sideVars>>

\* survey.AskOne returns text: the user message is appended
AskText ==
    /\ pc = "await"
    /\ Len(conversation) + 2 <= MaxMsgs
    /\ \E text \in UserInputs :
          /\ ~SkipInput(text)
          /\ userInput' = text
          /\ conversation' = Append(conversation, UserMessage(text))
    /\ pc' = "infer"
    /\ UNCHANGED <<stream, tools, message, idx, runErr,
                   mcpVars, parseVars, streamVars, guardVars, lifeVars, printed, sideVars>>

\* the first inference of a turn, not streamed: runInference
InferFirst ==
    /\ pc = "infer"
    /\ ~stream
    /\ \E msg \in Responses : Fits(msg) /\ AfterResponse(msg, printed)
    /\ UNCHANGED <<stream, userInput, tools, runErr, mcpVars, parseVars, streamVars, guardVars, lifeVars, sideVars>>

\* the first inference of a turn, streamed: runInferenceStreaming
InferFirstStreaming ==
    /\ pc = "infer"
    /\ stream
    /\ \E fs \in Streams(1) :
          LET msg == StreamedMessage(fs)
          IN  Fits(msg) /\ AfterResponse(msg, PrintFragments(printed, fs))
    /\ UNCHANGED <<stream, userInput, tools, runErr, mcpVars, parseVars, streamVars, guardVars, lifeVars, sideVars>>

\* the inference after the tool results: always runInference
InferFollowup ==
    /\ pc = "reinfer"
    /\ \E msg \in Responses : Fits(msg) /\ AfterResponse(msg, printed)
    /\ UNCHANGED <<stream, userInput, tools, runErr, mcpVars, parseVars, streamVars, guardVars, lifeVars, sideVars>>

\* any inference fails: Run returns the error
InferFails ==
    /\ pc \in {"infer", "reinfer"}
    /\ \E e \in InferenceErrs : runErr' = InferenceFailure(e, pc = "infer" /\ stream)
    /\ pc' = "returned"
    /\ UNCHANGED <<stream, userInput, tools, conversation, message, idx,
                   mcpVars, parseVars, streamVars, guardVars, lifeVars, printed, sideVars>>

\* one iteration of the range over message.ToolCalls: CallTool, the result
\* or the error as text, the tool message appended
ExecTool ==
    /\ pc = "tools"
    /\ \E out \in SessionOutcomes :
          LET toolCall == NextToolCall(message, idx)
              r == CallTool(sessions, toolCall.Name, toolCall.Arguments, out)
          IN  /\ lastCall' = r
              /\ forwarded' = forwarded \o r.fwd
              /\ conversation' = AppendToolResult(conversation, toolCall, r)
              /\ sessions' = SessionsAfterCall(sessions, r)
    /\ nCalls' = nCalls + 1
    /\ IF idx < Len(message.ToolCalls)
       THEN pc' = "tools" /\ idx' = idx + 1
       ELSE pc' = "reinfer" /\ idx' = 0
    /\ UNCHANGED <<stream, userInput, tools, message, runErr,
                   catalog, origin, listing, parseVars, streamVars, guardVars, lifeVars, printed, sideVars>>

Next ==
    \/ OllamaClientFails
    \/ OllamaClientOK
    \/ MainReturns
    \/ RunStart
    \/ AskFails
    \/ AskEmpty
    \/ AskText
    \/ InferFirst
    \/ InferFirstStreaming
    \/ InferFollowup
    \/ InferFails
    \/ ExecTool

Spec == Init /\ [][Next]_vars

\* Specification SpecSignal: the same program with the operator's interrupt
\* arriving while a tool call is in flight.  main installs no signal handler
\* and its context is context.Background(), which is never cancelled, so
\* the interrupt ends the process at once: Run does not return and no
\* deferred call runs
Interrupt ==
    /\ pc = "tools"
    /\ pc' = "interrupted"
    /\ UNCHANGED <<stream, userInput, tools, conversation, message, idx, runErr,
                   mcpVars, parseVars, streamVars, guardVars, lifeVars, printed, sideVars>>

SignalNext == Next \/ Interrupt

SpecSignal == Init /\ [][SignalNext]_vars

----------------------------------------------------------------------------
(* Specification SpecPreview: one tool call of Run with what it writes out, *)
(* the results being as long as the preview length and longer               *)

\* n bytes ch
Bytes(n, ch) == [i \in 1..n |-> ch]

\* the lengths of the result bodies: short ones, and those around the preview
\* length, for a body that is formatted as it is and for one that is wrapped
\* by MarshalIndent
BodyLens ==
    {0, 1} \cup ((PreviewLen - Len(MarshalIndent(NilResult)) - MaxOver)..(PreviewLen + MaxOver))

LongResults ==
    {[kind |-> k, body |-> Bytes(n, ch)] :
        k \in {"string", "bytes", "struct"}, n \in BodyLens, ch \in {"r", "s"}}

LongOutcomes ==
    {[ok |-> TRUE, result |-> r, err |-> NoErr] : r \in LongResults}
    \cup {[ok |-> FALSE, result |-> NilResult, err |-> e] : e \in SessionErrs}

\* Run is in its inner loop with a response of one tool call
PreviewInit ==
    /\ pc = "tools"
    /\ stream \in BOOLEAN
    /\ userInput \in UserTexts
    /\ tools = GetToolsResult(RunRegistry, <<(<<"a">>)>>, {}).tools
    /\ catalog = tools
    /\ origin = Listed(RunRegistry, <<(<<"a">>)>>, {})
    /\ listing = [done |-> TRUE, failed |-> {}, err |-> NoErr]
    /\ message \in {m \in Responses : Len(m.ToolCalls) = 1}
    /\ conversation = <<UserMessage(userInput), message>>
    /\ idx = 1
    /\ runErr = NoErr
    /\ sessions = RunRegistry
    /\ config = RunRegistry /\ mcpPc = "ready" /\ connectOK = DOMAIN RunRegistry
    /\ newErr = NoErr /\ closed = <<>> /\ closeErr = NoErr
    /\ printed = <<>>
    /\ lastCall = NoCall /\ forwarded = <<>> /\ nCalls = 0
    /\ ParseIdle /\ StreamIdle /\ GuardIdle
    /\ SideIdle

\* Run, lines 209-241: one iteration of the range over message.ToolCalls
\* with its output: the call is written out, CallTool is called, the error
\* or the preview of the result is written out, the tool message is appended
ToolCallShown ==
    /\ pc = "tools"
    /\ \E out \in LongOutcomes :
          LET toolCall == NextToolCall(message, idx)
              r == CallTool(sessions, toolCall.Name, toolCall.Arguments, out)
          IN  /\ lastCall' = r
              /\ forwarded' = forwarded \o r.fwd
              /\ printed' = PrintToolResult(printed, toolCall, r)
              /\ conversation' = AppendToolResult(conversation, toolCall, r)
              /\ sessions' = SessionsAfterCall(sessions, r)
    /\ nCalls' = nCalls + 1
    /\ IF idx < Len(message.ToolCalls)
       THEN pc' = "tools" /\ idx' = idx + 1
       ELSE pc' = "reinfer" /\ idx' = 0
    /\ UNCHANGED <<stream, userInput, tools, message, runErr,
                   catalog, origin, listing, parseVars, streamVars,
                   guardVars, lifeVars, sideVars>>

PreviewNext == ToolCallShown

SpecPreview == PreviewInit /\ [][PreviewNext]_vars

----------------------------------------------------------------------------
(* Specification SpecConfig: LoadConfig applied to one file *)

\* the keys of a server entry that MCPServer has a field for, and one it has
\* no field for
FieldKeys == {"command", "args", "env", "type", "url", "headers"}
ExtraKey == "comment"

\* the value a document gives under each key
KeyValue(key) ==
    CASE key = "command" -> "npx"
      [] key = "args" -> <<"-y", "server-filesystem">>
      [] key = "env" -> [k \in {"TEST_ENV"} |-> "value"]
      [] key = "type" -> "sse"
      [] key = "url" -> "http://localhost:8080/sse"
      [] key = "headers" -> [k \in {"Authorization"} |-> "Bearer token"]
      [] OTHER -> "text"

\* the key sets of a server entry: any keys of a stdio entry, any keys of an
\* SSE entry, each also with the unknown key, and all keys together
KeySets ==
    LET known == SUBSET {"command", "args", "env"} \cup SUBSET {"type", "url", "headers"}
                    \cup {FieldKeys}
    IN  known \cup {ks \cup {ExtraKey} : ks \in known}

\* a server entry of a document: a JSON object
ServerObjects == {[key \in ks |-> KeyValue(key)] : ks \in KeySets}

ServerNames == {"filesystem", "remote"}

\* the content of a file: text that is not JSON, JSON whose "mcpServers" is
\* not an object, a JSON object without "mcpServers", or a configuration
\* document
Documents ==
    {[kind |-> "garbage"], [kind |-> "mismatch"], [kind |-> "empty object"]}
    \cup {[kind |-> "document", servers |-> sv] :
            sv \in UNION {[S -> ServerObjects] : S \in SUBSET ServerNames}}

\* the file at the path: one that cannot be read, or one with a content
ConfigFiles ==
    {[readable |-> FALSE, data |-> [kind |-> "garbage"]]}
    \cup {[readable |-> TRUE, data |-> d] : d \in Documents}

\* json.Unmarshal into an MCPServer: a field takes the value under its key
\* and keeps its zero value when the key is absent; a key without a field is
\* dropped
DecodeServer(obj) ==
    [Command |-> IF "command" \in DOMAIN obj THEN obj["command"] ELSE "",
     Args |-> IF "args" \in DOMAIN obj THEN obj["args"] ELSE <<>>,
     Env |-> IF "env" \in DOMAIN obj THEN obj["env"] ELSE <<>>,
     Type |-> IF "type" \in DOMAIN obj THEN obj["type"] ELSE "",
     URL |-> IF "url" \in DOMAIN obj THEN obj["url"] ELSE "",
     Headers |-> IF "headers" \in DOMAIN obj THEN obj["headers"] ELSE <<>>]

\* the zero Config: MCPServers is a nil map
ZeroConfig == [nil |-> FALSE, MCPServers |-> <<>>]
NilConfig == [nil |-> TRUE, MCPServers |-> <<>>]

\* json.Unmarshal(data, &config): the config as it is left and the error
Unmarshal(data) ==
    CASE data.kind = "garbage" ->
            [config |-> ZeroConfig, err |-> <<"invalid character">>]
      [] data.kind = "mismatch" ->
            [config |-> ZeroConfig, err |-> <<"json: cannot unmarshal">>]
      [] data.kind = "empty object" ->
            [config |-> ZeroConfig, err |-> NoErr]
      [] OTHER ->
            [config |-> [nil |-> FALSE,
                         MCPServers |-> [p \in DOMAIN data.servers |->
                                            DecodeServer(data.servers[p])]],
             err |-> NoErr]

\* fmt.Errorf("failed to read config file: %w", err)
ReadFailedErr == <<"failed to read config file: ", "no such file or directory">>

\* fmt.Errorf("failed to parse config file: %w", err)
ParseFailedErr(err) == <<"failed to parse config file: ">> \o err

\* LoadConfig(path), file being what is at the path
LoadConfig_ConfigOnParseError(file) ==
    IF ~file.readable
    THEN [config |-> NilConfig, err |-> ReadFailedErr, done |-> TRUE]
    ELSE LET u == Unmarshal(file.data)
         IN  [config |-> u.config,
              err |-> IF u.err # NoErr THEN ParseFailedErr(u.err) ELSE NoErr,
              done |-> TRUE]

LoadConfig(file) ==
    IF ~file.readable
    THEN [config |-> NilConfig, err |-> ReadFailedErr, done |-> TRUE]
    ELSE LET u == Unmarshal(file.data)
         IN  IF u.err # NoErr
             THEN [config |-> NilConfig, err |-> ParseFailedErr(u.err), done |-> TRUE]
             ELSE [config |-> u.config, err |-> NoErr, done |-> TRUE]

NotLoaded == [config |-> NilConfig, err |-> NoErr, done |-> FALSE]

ConfigInit ==
    /\ cfgFile \in ConfigFiles
    /\ loaded = NotLoaded
    /\ ParseIdle /\ MCPIdle /\ RunIdle /\ StreamIdle /\ GuardIdle /\ LifeIdle /\ PrintIdle
    /\ FilesIdle /\ EditRunIdle

LoadConfigAct ==
    /\ ~loaded.done
    /\ loaded' = LoadConfig(cfgFile)
    /\ UNCHANGED <<cfgFile, fsVars, editVars, parseVars, mcpVars, runVars, streamVars,
                   guardVars, lifeVars, printed>>

ConfigNext == LoadConfigAct

SpecConfig == ConfigInit /\ [][ConfigNext]_vars

----------------------------------------------------------------------------
(* Specification SpecEditFile: EditFile of edit_tool applied to one input *)

FileChars == {"a", "b"}

\* the texts of at most n characters
Texts(n) == UNION {[1..k -> FileChars] : k \in 0..n}

\* the file systems over the paths P: each path is absent or a file
FileSystems(P) == UNION {[S -> Texts(MaxContent)] : S \in SUBSET P}

\* the file system with content written to path
WriteFile(fsys, path, content) ==
    [p \in DOMAIN fsys \cup {path} |-> IF p = path THEN content ELSE fsys[p]]

\* the inputs of EditFile: JSON that does not decode, or path, old_str, new_str
EditFileInputs ==
    {[json |-> FALSE, Path |-> "", OldStr |-> <<>>, NewStr |-> <<>>]}
    \cup [json : {TRUE}, Path : {"", "f"}, OldStr : Texts(MaxStr), NewStr : Texts(MaxStr)]

\* a call that returns ("", err)
EditFailed(fsys, err) == [files |-> fsys, result |-> <<>>, err |-> err, done |-> TRUE]

\* createNewFile(filePath, content), the directory of the path being there
createNewFile(fsys, filePath, content) ==
    [files |-> WriteFile(fsys, filePath, content),
     result |-> <<"Successfully created file ", filePath>>,
     err |-> NoErr, done |-> TRUE]

\* EditFile(input) on the file system fsys, denied telling whether reading
\* an existing file fails; writing succeeds
EditFile_FirstOfMany(fsys, in, denied) ==
    IF ~in.json THEN EditFailed(fsys, <<"unexpected end of JSON input">>)
    ELSE IF in.Path = "" \/ in.OldStr = in.NewStr
    THEN EditFailed(fsys, <<"invalid input parameters">>)
    ELSE IF in.Path \notin DOMAIN fsys
    THEN IF in.OldStr = <<>>
         THEN createNewFile(fsys, in.Path, in.NewStr)
         ELSE EditFailed(fsys, <<"open ", in.Path, ": no such file or directory">>)
    ELSE IF denied
    THEN EditFailed(fsys, <<"open ", in.Path, ": permission denied">>)
    ELSE LET oldContent == fsys[in.Path]
         IN  IF in.OldStr = <<>>
             THEN [files |-> WriteFile(fsys, in.Path, oldContent \o in.NewStr),
                   result |-> <<"OK">>, err |-> NoErr, done |-> TRUE]
             ELSE IF Count(oldContent, in.OldStr) = 0
             THEN EditFailed(fsys, <<"old_str not found in file">>)
             ELSE [files |-> WriteFile(fsys, in.Path,
                                       ReplaceFirst(oldContent, in.OldStr, in.NewStr)),
                   result |-> <<"OK">>, err |-> NoErr, done |-> TRUE]

EditFile(fsys, in, denied) ==
    IF ~in.json THEN EditFailed(fsys, <<"unexpected end of JSON input">>)
    ELSE IF in.Path = "" \/ in.OldStr = in.NewStr
    THEN EditFailed(fsys, <<"invalid input parameters">>)
    ELSE IF in.Path \notin DOMAIN fsys
    THEN IF in.OldStr = <<>>
         THEN createNewFile(fsys, in.Path, in.NewStr)
         ELSE EditFailed(fsys, <<"open ", in.Path, ": no such file or directory">>)
    ELSE IF denied
    THEN EditFailed(fsys, <<"open ", in.Path, ": permission denied">>)
    ELSE LET oldContent == fsys[in.Path]
             count == Count(oldContent, in.OldStr)
         IN  IF in.OldStr = <<>>
             THEN [files |-> WriteFile(fsys, in.Path, oldContent \o in.NewStr),
                   result |-> <<"OK">>, err |-> NoErr, done |-> TRUE]
             ELSE IF count = 0
             THEN EditFailed(fsys, <<"old_str not found in file">>)
             ELSE IF count > 1
             THEN EditFailed(fsys, <<"old_str found ", count,
                                     " times in file, must be unique">>)
             ELSE [files |-> WriteFile(fsys, in.Path,
                                       ReplaceFirst(oldContent, in.OldStr, in.NewStr)),
                   result |-> <<"OK">>, err |-> NoErr, done |-> TRUE]

NoInput == [json |-> FALSE, Path |-> "", OldStr |-> <<>>, NewStr |-> <<>>]
NoOutput == [result |-> <<>>, err |-> NoErr, done |-> FALSE]

EditFileInit ==
    /\ files \in FileSystems({"f"})
    /\ toolIn = NoInput
    /\ toolOut = NoOutput
    /\ ParseIdle /\ MCPIdle /\ RunIdle /\ StreamIdle /\ GuardIdle /\ LifeIdle /\ PrintIdle
    /\ ConfigIdle /\ EditRunIdle

EditFileAct ==
    /\ ~toolOut.done
    /\ \E in \in EditFileInputs, denied \in BOOLEAN :
          LET r == EditFile(files, in, denied)
          IN  /\ toolIn' = in
              /\ files' = r.files
              /\ toolOut' = [result |-> r.result, err |-> r.err, done |-> TRUE]
    /\ UNCHANGED <<cfgVars, editVars, parseVars, mcpVars, runVars, streamVars,
                   guardVars, lifeVars, printed>>

EditFileNext == EditFileAct

SpecEditFile == EditFileInit /\ [][EditFileNext]_vars

----------------------------------------------------------------------------
(* Specification SpecFsEdit: handleEditFile of the filesystem provider      *)
(* applied to one request                                                   *)

\* resolvePath(path): "~" is replaced by the home directory and a relative
\* path is made absolute from the working directory
resolvePath(path) ==
    CASE path = "~/f" -> "/home/f"
      [] path = "f" -> "/work/f"
      [] OTHER -> path

\* EditFileArgs: path and content
EditFileArgs == [Path : {"f", "/work/f", "~/f"}, Content : Texts(MaxStr)]

\* errorResult(message)
errorResult(text) == [IsError |-> TRUE, Text |-> text]

\* handleEditFile(ctx, req, args) on the file system fsys: the file system
\* after it and the result returned; writing succeeds (the messages are in
\* Chinese in the source and rendered in English here)
handleEditFile(fsys, args) ==
    LET absPath == resolvePath(args.Path)
    IN  IF absPath \notin DOMAIN fsys
        THEN [files |-> fsys,
              result |-> errorResult(<<"file does not exist: ", absPath>>)]
        ELSE [files |-> WriteFile(fsys, absPath, args.Content),
              result |-> [IsError |-> FALSE, Text |-> <<"edited file: ", absPath>>]]

NoArgs == [Path |-> "", Content |-> <<>>]
NoResult == [IsError |-> FALSE, Text |-> <<>>, done |-> FALSE]

FsEditInit ==
    /\ files \in FileSystems({"/work/f", "/home/f"})
    /\ toolIn = NoArgs
    /\ toolOut = NoResult
    /\ ParseIdle /\ MCPIdle /\ RunIdle /\ StreamIdle /\ GuardIdle /\ LifeIdle /\ PrintIdle
    /\ ConfigIdle /\ EditRunIdle

HandleEditFileAct ==
    /\ ~toolOut.done
    /\ \E args \in EditFileArgs :
          LET r == handleEditFile(files, args)
          IN  /\ toolIn' = args
              /\ files' = r.files
              /\ toolOut' = [IsError |-> r.result.IsError, Text |-> r.result.Text,
                             done |-> TRUE]
    /\ UNCHANGED <<cfgVars, editVars, parseVars, mcpVars, runVars, streamVars,
                   guardVars, lifeVars, printed>>

FsEditNext == HandleEditFileAct

SpecFsEdit == FsEditInit /\ [][FsEditNext]_vars

----------------------------------------------------------------------------
(* Specification SpecEditRun: Agent.Run of edit_tool *)

\* main, line 56: the names of a.tools
AgentToolNames == {"read_file", "list_files", "bash", "edit_file"}

\* the names the model may call: a tool of the agent and one it has not
EditCallNames == {"edit_file", "search"}

EditToolCalls == [Name : EditCallNames, ID : {"call_1"}]

\* the responses of the inference provider
EditResponses ==
    [Role : {"assistant"}, Content : {<<>>},
     ToolCalls : UNION {[1..k -> EditToolCalls] : k \in 0..MaxToolCalls},
     ToolName : {<<>>}, ToolCallID : {""}]

\* what a tool function returns: a result, or an error
ToolReturns ==
    {[result |-> <<"OK">>, err |-> NoErr],
     [result |-> <<>>, err |-> <<"old_str not found in file">>]}

\* fmt.Errorf("tool '%s' not found", toolCall.Function.Name)
ToolNotFoundErr(name) == <<"tool '", name, "' not found">>

\* Run, lines 166-173: the tool message of a call
EditToolMessage(toolResult, toolCall) ==
    [Role |-> "tool", Content |-> toolResult, ToolCalls |-> <<>>,
     ToolName |-> toolCall.Name, ToolCallID |-> toolCall.ID]

\* Run, line 148: what Run returns when the tool function returned
\* toolError, err being Run's err variable
ToolFailure_ReturnsToolError(err, toolError) == toolError

ToolFailure(err, toolError) == err

EditRunInit ==
    /\ pc = "await"
    /\ stream = FALSE
    /\ userInput = <<>>
    /\ tools = <<>>
    /\ conversation = <<>>
    /\ message = ZeroMessage
    /\ idx = 0
    /\ runErr = NoErr
    /\ ran = <<>>
    /\ lastErr = NoErr
    /\ ParseIdle /\ MCPIdle /\ StreamIdle /\ GuardIdle /\ LifeIdle /\ PrintIdle
    /\ ConfigIdle /\ FilesIdle

\* survey.AskOne fails: break, and Run returns nil
EditAskFails ==
    /\ pc = "await"
    /\ \E e \in InputErrs : lastErr' = e
    /\ userInput' = <<>>
    /\ pc' = "returned"
    /\ runErr' = NoErr
    /\ UNCHANGED <<stream, tools, conversation, message, idx, ran,
                   parseVars, mcpVars, streamVars, guardVars, lifeVars, printed,
                   cfgVars, fsVars>>

\* an empty input: continue
EditAskEmpty ==
    /\ pc = "await"
    /\ userInput' = <<>>
    /\ lastErr' = NoErr
    /\ UNCHANGED <<pc, stream, tools, conversation, message, idx, runErr, ran,
                   parseVars, mcpVars, streamVars, guardVars, lifeVars, printed,
                   cfgVars, fsVars>>

\* an input: the user message is appended
EditAskText ==
    /\ pc = "await"
    /\ Len(conversation) + 2 <= MaxMsgs
    /\ \E text \in UserTexts :
          /\ userInput' = text
          /\ conversation' = Append(conversation, UserMessage(text))
    /\ lastErr' = NoErr
    /\ pc' = "infer"
    /\ UNCHANGED <<stream, tools, message, idx, runErr, ran,
                   parseVars, mcpVars, streamVars, guardVars, lifeVars, printed,
                   cfgVars, fsVars>>

\* an inference returns msg: it is appended, and the range over its tool
\* calls starts or, without any, the inner loop breaks
EditInfer ==
    /\ pc \in {"infer", "reinfer"}
    /\ \E msg \in EditResponses :
          /\ Fits(msg)
          /\ message' = msg
          /\ conversation' = Append(conversation, msg)
          /\ IF Len(msg.ToolCalls) > 0
             THEN pc' = "tools" /\ idx' = 1
             ELSE pc' = "await" /\ idx' = 0
    /\ lastErr' = NoErr
    /\ UNCHANGED <<stream, userInput, tools, runErr, ran,
                   parseVars, mcpVars, streamVars, guardVars, lifeVars, printed,
                   cfgVars, fsVars>>

\* the first inference of a turn fails: "run failed" is written out, break,
\* and Run returns nil
EditInferFirstFails ==
    /\ pc = "infer"
    /\ \E e \in InferenceErrs :
          /\ lastErr' = e
          /\ printed' = Append(printed, [kind |-> "run failed", text |-> e])
    /\ pc' = "returned"
    /\ runErr' = NoErr
    /\ UNCHANGED <<stream, userInput, tools, conversation, message, idx, ran,
                   parseVars, mcpVars, streamVars, guardVars, lifeVars,
                   cfgVars, fsVars>>

\* the inference after the tool results fails: Run returns the error
EditInferFollowupFails ==
    /\ pc = "reinfer"
    /\ \E e \in InferenceErrs :
          /\ lastErr' = e
          /\ runErr' = e
    /\ pc' = "returned"
    /\ UNCHANGED <<stream, userInput, tools, conversation, message, idx, ran,
                   parseVars, mcpVars, streamVars, guardVars, lifeVars, printed,
                   cfgVars, fsVars>>

\* one iteration of the range over message.ToolCalls for a tool of the
\* agent: its function is called; on an error Run returns err, else the tool
\* message is appended
EditExecTool ==
    /\ pc = "tools"
    /\ LET toolCall == message.ToolCalls[idx]
       IN  /\ toolCall.Name \in AgentToolNames
           /\ \E out \in ToolReturns :
                 /\ ran' = Append(ran, [name |-> toolCall.Name, err |-> out.err])
                 /\ IF out.err # NoErr
                    THEN /\ runErr' = ToolFailure(lastErr, out.err)
                         /\ pc' = "returned"
                         /\ UNCHANGED <<conversation, idx>>
                    ELSE /\ conversation' =
                              Append(conversation, EditToolMessage(out.result, toolCall))
                         /\ IF idx < Len(message.ToolCalls)
                            THEN pc' = "tools" /\ idx' = idx + 1
                            ELSE pc' = "reinfer" /\ idx' = 0
                         /\ UNCHANGED runErr
    /\ UNCHANGED <<stream, userInput, tools, message, lastErr,
                   parseVars, mcpVars, streamVars, guardVars, lifeVars, printed,
                   cfgVars, fsVars>>

\* one iteration for a name that is no tool of the agent: the tool message
\* carries the not-found error and the range goes on
EditToolNotFound ==
    /\ pc = "tools"
    /\ LET toolCall == message.ToolCalls[idx]
       IN  /\ toolCall.Name \notin AgentToolNames
           /\ conversation' =
                 Append(conversation,
                        EditToolMessage(ToolNotFoundErr(toolCall.Name), toolCall))
    /\ IF idx < Len(message.ToolCalls)
       THEN pc' = "tools" /\ idx' = idx + 1
       ELSE pc' = "reinfer" /\ idx' = 0
    /\ UNCHANGED <<stream, userInput, tools, message, runErr, ran, lastErr,
                   parseVars, mcpVars, streamVars, guardVars, lifeVars, printed,
                   cfgVars, fsVars>>

EditRunNext ==
    \/ EditAskFails
    \/ EditAskEmpty
    \/ EditAskText
    \/ EditInfer
    \/ EditInferFirstFails
    \/ EditInferFollowupFails
    \/ EditExecTool
    \/ EditToolNotFound

SpecEditRun == EditRunInit /\ [][EditRunNext]_vars

----------------------------------------------------------------------------
(* Properties of the names: parseToolName, GetTools, CallTool *)

\* C5: for non-empty p and t that do not contain "__",
\* parseToolName(p + "__" + t) returns (p, t) and no error.
C5_RoundTrip ==
    (/\ parsePc = "parsed"
     /\ qName = QualifiedName(pName, tName)
     /\ Index(pName, Sep) = 0
     /\ Index(tName, Sep) = 0)
    => parsed = [server |-> pName, tool |-> tName, err |-> NoErr]

\* C6: CallTool on the name GetTools produced for tool t of provider p
\* forwards exactly one call, to p's session, with local name t.
C6_CatalogRoundTrip ==
    nCalls > 0 =>
        \A i \in DOMAIN catalog :
            catalog[i].Name = lastCall.name =>
                lastCall.fwd = <<[server |-> origin[i].server,
                                  tool |-> origin[i].tool,
                                  args |-> lastCall.args]>>

\* C7: a name with zero or with more than one occurrence of "__" is rejected
\* with "invalid tool name format: <name>", and CallTool returns that error
\* having looked up and contacted no session.
C7_Rejected ==
    (nCalls > 0 /\ Count(lastCall.name, Sep) # 1) =>
        /\ parseToolName(lastCall.name).err = InvalidFormatErr(lastCall.name)
        /\ lastCall.err = InvalidFormatErr(lastCall.name)
        /\ lastCall.result = NilResult
        /\ lastCall.lookups = <<>>
        /\ lastCall.fwd = <<>>

C7_Witness ==
    /\ nCalls > 0
    /\ Count(lastCall.name, Sep) > 1
    /\ <<"a">> \in DOMAIN sessions
    /\ lastCall.err = InvalidFormatErr(lastCall.name)

\* C8: the catalog GetTools returns has no two entries with the same
\* qualified name.
C8_UniqueNames ==
    \A i, j \in DOMAIN catalog : catalog[i].Name = catalog[j].Name => i = j

----------------------------------------------------------------------------
(* Properties of the conversation: Agent.Run *)

\* positions of the messages of a role
RolePositions(role) == {i \in DOMAIN conversation : conversation[i].Role = role}

RECURSIVE SumCalls(_)
SumCalls(S) ==
    IF S = {} THEN 0
    ELSE LET i == CHOOSE x \in S : TRUE
         IN  Len(conversation[i].ToolCalls) + SumCalls(S \ {i})

\* C1: when Run returns, the number of tool messages equals the number of
\* ToolCalls carried by the assistant messages of the conversation.
C1_ToolCount ==
    pc = "returned" =>
        Cardinality(RolePositions("tool")) = SumCalls(RolePositions("assistant"))

C1_Witness ==
    /\ pc = "returned"
    /\ runErr # NoErr
    /\ Cardinality(RolePositions("tool")) >= 2
    /\ \E i \in RolePositions("tool") :
          SubSeq(conversation[i].Content, 1, 1) = <<"Error: ">>

\* the assistant message a tool message answers: the last one before it
PrecedingAssistant(j) ==
    CHOOSE i \in RolePositions("assistant") :
        i < j /\ \A k \in RolePositions("assistant") : k < j => k <= i

\* C2: the correlation key of every tool message (its ToolName, the only
\* correlation field Run sets) identifies exactly one ToolCall of the
\* preceding assistant message.  Stated for the non-streaming mode, where an
\* assistant message carries exactly the calls the provider sent.
C2_KeyIdentifiesOneCall ==
    ~stream =>
        \A j \in RolePositions("tool") :
            LET calls == conversation[PrecedingAssistant(j)].ToolCalls
            IN  Cardinality({n \in DOMAIN calls :
                                calls[n].Name = conversation[j].ToolName}) = 1

\* the k calls of the assistant message at i are answered: the next k
\* messages are the tool messages of its calls, in order, and no further
\* tool message follows them
Answered(i) ==
    LET calls == conversation[i].ToolCalls
        k == Len(calls)
    IN  /\ i + k <= Len(conversation)
        /\ \A n \in 1..k :
              /\ conversation[i + n].Role = "tool"
              /\ conversation[i + n].ToolName = calls[n].Name
        /\ i + k + 1 <= Len(conversation) => conversation[i + k + 1].Role # "tool"

\* C9: every ToolCall of an appended assistant message has exactly one tool
\* message after it before the next user message is appended, before the
\* next inference response is appended and before Run returns.
C9_EveryCallAnswered ==
    \A i \in RolePositions("assistant") :
        (\/ pc # "tools"
         \/ \E j \in DOMAIN conversation :
               j > i /\ conversation[j].Role \in {"user", "assistant"})
        => Answered(i)

C9_Witness ==
    /\ pc = "returned"
    /\ \E i \in RolePositions("assistant") :
          /\ Len(conversation[i].ToolCalls) = 2
          /\ SubSeq(conversation[i + 1].Content, 1, 1) = <<"Error: ">>
          /\ SubSeq(conversation[i + 2].Content, 1, 1) # <<"Error: ">>
    /\ Cardinality(RolePositions("user")) = 2

\* C10: a tool call whose CallTool returned an error appends a tool message
\* with the text "Error: <the error>", the range goes on with the next call
\* of the message or, after the last, to the next inference request; Run
\* returns only when an inference or the input fails.
C10_ToolErrorDoesNotAbort ==
    [][/\ (pc = "tools" /\ lastCall'.err # NoErr) =>
            /\ conversation' =
                  Append(conversation,
                         [Role |-> "tool", Content |-> <<"Error: ">> \o lastCall'.err,
                          ToolCalls |-> <<>>,
                          ToolName |-> message.ToolCalls[idx].Name])
            /\ lastCall'.name = message.ToolCalls[idx].Name
            /\ IF idx < Len(message.ToolCalls)
               THEN pc' = "tools" /\ idx' = idx + 1 /\ message' = message
               ELSE pc' = "reinfer"
       /\ (pc = "reinfer" /\ pc' # "returned") =>
            /\ Len(conversation') = Len(conversation) + 1
            /\ conversation'[Len(conversation')].Role = "assistant"
       /\ pc' = "returned" => pc \in {"await", "infer", "reinfer", "returned"}
      ]_vars

C10_Witness ==
    /\ pc = "await"
    /\ \E i \in RolePositions("assistant") :
          /\ Len(conversation[i].ToolCalls) = 2
          /\ conversation[i + 1].Content = ErrorText(InvalidFormatErr(<<"b">>))
          /\ conversation[i + 2].Content
                = ErrorText(CallFailedErr(<<"boom">>))
          /\ conversation[i + 3].Role = "assistant"

----------------------------------------------------------------------------
(* Properties of the streaming fold: runInferenceStreaming *)

\* the tool calls of the fragments, in arrival order
RECURSIVE AllToolCalls(_)
AllToolCalls(fs) ==
    IF fs = <<>> THEN <<>>
    ELSE Head(fs).Message.ToolCalls \o AllToolCalls(Tail(fs))

\* C3: the message runInferenceStreaming returns carries exactly the tool
\* calls of the fragments received, each once and in arrival order.
C3_StreamedToolCalls ==
    streamPc = "returned" =>
        acc.finalMessage.ToolCalls = AllToolCalls(received)

----------------------------------------------------------------------------
(* Properties of the inference guard: InputLock / InputUnLock *)

\* C4: at most one inference exchange is in flight per Agent at any time: a
\* second caller does not send its request while a first exchange has not
\* returned.  Stated for the callers of runInference, the method that takes
\* the guard.
C4_OneInFlight ==
    \A c, d \in Callers : (gpc[c] = "chat" /\ gpc[d] = "chat") => c = d

----------------------------------------------------------------------------
(* Properties of the life of the registry: NewClient, Close *)

\* C15: once NewClient has returned, the session map holds an entry for
\* exactly the configured providers whose connect succeeded, and NewClient
\* returned no error, however many connects failed.
C15_SessionsAreTheConnected ==
    mcpPc \in {"ready", "closed"} =>
        /\ DOMAIN sessions = connectOK
        /\ \A p \in DOMAIN sessions : sessions[p].tools = config[p].tools
        /\ newErr = NoErr

\* NewClient has returned from a configuration of two providers, one of
\* whose connects failed
C15_Witness ==
    /\ mcpPc = "ready"
    /\ Cardinality(DOMAIN config) = 2
    /\ Cardinality(connectOK) = 1

\* C34: connectToServer binds a provider over the SSE transport exactly when
\* its configured type is "sse"; a provider that gives no type is bound over
\* the stdio transport; and the session map holds one session for each
\* provider whose connect succeeded and none for the others.
C34_TransportByType ==
    mcpPc \in {"ready", "closed"} =>
        /\ \A p \in DOMAIN sessions :
              /\ sessions[p].transport = "sse" <=> config[p].Type = "sse"
              /\ config[p].Type = "" => sessions[p].transport = "stdio"
              /\ sessions[p].transport \in {"sse", "stdio"}
        /\ \A p \in DOMAIN config : p \in DOMAIN sessions <=> p \in connectOK

\* a provider of type "sse" and one without a type have both been connected
C34_Witness ==
    /\ mcpPc = "ready"
    /\ \E p, q \in DOMAIN sessions :
          /\ config[p].Type = "sse" /\ sessions[p].transport = "sse"
          /\ config[q].Type = "" /\ sessions[q].transport = "stdio"

\* C16: with provider A's connect failed and provider B's succeeded, the
\* catalogue holds tools of B only, each named "B__<tool>", and CallTool
\* on any name "A__<tool>" reaches no session and returns the error
\* "server A not found".
C16_FailedProviderIsolated ==
    mcpPc = "ready" =>
        \A A \in DOMAIN config \ connectOK, B \in connectOK :
            /\ \A i \in DOMAIN catalog :
                  /\ origin[i].server = B
                  /\ catalog[i].Name = B \o Sep \o origin[i].tool
            /\ \A t \in ToolNames :
                  (nCalls > 0 /\ lastCall.name = A \o Sep \o t) =>
                      /\ lastCall.err = <<"server ">> \o A \o <<" not found">>
                      /\ lastCall.fwd = <<>>

\* C17: one call of Close calls Close on every session of the map exactly
\* once; a session whose Close fails does not keep the others from being
\* closed.
C17_EverySessionClosedOnce ==
    mcpPc = "closed" =>
        /\ Len(closed) = Cardinality(DOMAIN sessions)
        /\ \A p \in DOMAIN sessions :
              Cardinality({i \in DOMAIN closed : closed[i].server = p}) = 1

\* Close has run over two sessions and the first one it closed failed
C17_Witness ==
    /\ mcpPc = "closed"
    /\ Len(closed) = 2
    /\ closed[1].err # NoErr

\* C18: Close returns nil exactly when every session closed without error;
\* otherwise its single error names every provider whose session failed to
\* close.
C18_CloseErrorNamesProviders ==
    mcpPc = "closed" =>
        /\ (closeErr = NoErr) <=> (\A i \in DOMAIN closed : closed[i].err = NoErr)
        /\ \A i \in DOMAIN closed :
              closed[i].err # NoErr => Index(closeErr, closed[i].server) # 0

----------------------------------------------------------------------------
(* Properties of the errors and the output: CallTool, Run, main *)

\* C11: a tool call whose provider part p is not in the registry is
\* answered by a tool message whose content is exactly
\* "Error: server p not found"; a tool call whose name n has no separator
\* draws the router error "invalid tool name format: n" and a tool message
\* whose content is "Error: " followed by that text.
C11_RouterErrorsAsToolContent ==
    /\ \A i \in DOMAIN conversation :
          conversation[i].Role = "tool" =>
              LET n == conversation[i].ToolName
                  m == Index(n, Sep)
                  p == SubSeq(n, 1, m - 1)
              IN  /\ m = 0 =>
                        conversation[i].Content
                            = <<"Error: ", "invalid tool name format: ">> \o n
                  /\ (Count(n, Sep) = 1 /\ p \notin DOMAIN sessions) =>
                        conversation[i].Content
                            = <<"Error: ", "server ">> \o p \o <<" not found">>
    /\ (nCalls > 0 /\ Index(lastCall.name, Sep) = 0) =>
          lastCall.err = <<"invalid tool name format: ">> \o lastCall.name

\* the conversation holds the answer to a call of a tool of the unknown
\* provider "c" and the answer to a call of the name "b"
C11_Witness ==
    /\ \E i \in DOMAIN conversation :
          /\ conversation[i].Role = "tool"
          /\ conversation[i].ToolName = <<"c", "_", "_", "b">>
    /\ \E j \in DOMAIN conversation :
          /\ conversation[j].Role = "tool"
          /\ conversation[j].ToolName = <<"b">>

\* C12: when the session of a provider fails a forwarded call, the error
\* CallTool returns names the provider, names the local tool and carries
\* the message of the underlying error.
C12_ExecutionErrorContext ==
    (nCalls > 0 /\ lastCall.fwd # <<>> /\ lastCall.err # NoErr) =>
        /\ Index(lastCall.err, lastCall.fwd[1].server) # 0
        /\ Index(lastCall.err, lastCall.fwd[1].tool) # 0
        /\ \E e \in SessionErrs : Index(lastCall.err, e) # 0

\* the assistant text of a stretch of output, pieces joined
RECURSIVE AssistantText(_)
AssistantText(out) ==
    IF out = <<>> THEN <<>>
    ELSE (IF Head(out).kind = "assistant" THEN Head(out).text ELSE <<>>)
         \o AssistantText(Tail(out))

\* C13: streaming or not, the step that ends a turn (a response with no
\* tool calls, first of the turn or after tool rounds) prints the text of
\* that response when it is not empty: the output grows by exactly that
\* text, in one piece or in several.
C13_FinalTextPrinted ==
    [][(/\ pc \in {"infer", "reinfer"}
        /\ pc' = "await"
        /\ conversation'[Len(conversation')].Content # <<>>)
       => /\ Len(printed') >= Len(printed)
          /\ SubSeq(printed', 1, Len(printed)) = printed
          /\ AssistantText(SubSeq(printed', Len(printed) + 1, Len(printed')))
                = conversation'[Len(conversation')].Content]_vars

\* C14: a response ends the turn (Run awaits input again) exactly when it
\* carries no tool call; a response with tool calls starts their
\* execution, and the execution of the last one is followed by another
\* inference, never by awaiting input.
C14_LoopEndsOnPlainResponse ==
    [][/\ (pc \in {"infer", "reinfer"} /\ conversation' # conversation) =>
            LET response == conversation'[Len(conversation')]
            IN  /\ pc' = "await" <=> Len(response.ToolCalls) = 0
                /\ pc' = "tools" <=> Len(response.ToolCalls) > 0
       /\ pc = "tools" => pc' \in {"tools", "reinfer"}
       /\ pc = "reinfer" => pc' \in {"reinfer", "tools", "await", "returned"}]_vars

\* a turn has ended after two rounds of tool calls
C14_Witness ==
    /\ pc = "await"
    /\ \E i, j \in DOMAIN conversation :
          /\ i < j
          /\ conversation[i].Role = "assistant"
          /\ Len(conversation[i].ToolCalls) > 0
          /\ conversation[j].Role = "assistant"
          /\ Len(conversation[j].ToolCalls) > 0
    /\ Len(conversation[Len(conversation)].ToolCalls) = 0

\* C19: when a session fails to close at the shutdown of mcp_agent, the
\* combined error Close returned is among what was reported to the
\* operator.
C19_TeardownErrorReported ==
    (pc = "exited" /\ closeErr # NoErr) =>
        \E i \in DOMAIN printed : Index(printed[i].text, closeErr) # 0

\* C20: whichever way main exits once the registry is constructed (end of
\* input, a fatal inference error returned by Run, a failure to initialise
\* the inference client), Close has been executed on the registry.
C20_CloseOnEveryExit ==
    pc = "exited" =>
        /\ mcpPc = "closed"
        /\ Len(closed) = Cardinality(DOMAIN sessions)

----------------------------------------------------------------------------
(* Properties of the catalogue and the router: GetTools, CallTool *)

\* C26: GetTools never returns an error: a provider whose tool-list query
\* fails contributes no entry, and every tool of every provider whose query
\* succeeds is in the result exactly once, named "<provider>__<tool>".
C26_GetToolsNeverFails ==
    listing.done =>
        /\ listing.err = NoErr
        /\ \A i \in DOMAIN catalog :
              /\ origin[i].server \in DOMAIN sessions \ listing.failed
              /\ catalog[i].Name = origin[i].server \o Sep \o origin[i].tool
        /\ \A p \in DOMAIN sessions \ listing.failed :
              \A k \in DOMAIN sessions[p].tools :
                  Cardinality({i \in DOMAIN catalog :
                                  origin[i] = [server |-> p,
                                               tool |-> sessions[p].tools[k]]}) = 1

\* GetTools has returned tools although the query of one provider failed
C26_Witness ==
    /\ listing.done
    /\ listing.failed # {}
    /\ catalog # <<>>

\* C27: for a name with exactly one separator whose provider part p is in
\* the registry, CallTool forwards exactly one call, to the session of p,
\* with the local name t and the caller's arguments, and contacts no other
\* session; a naming error, an unknown provider and a failed execution
\* give three different error texts.
C27_RoutedOnceAndErrorsDistinct ==
    nCalls > 0 =>
        LET n == lastCall.name
            m == Index(n, Sep)
            p == SubSeq(n, 1, m - 1)
            t == SubSeq(n, m + Len(Sep), Len(n))
        IN  /\ (Count(n, Sep) = 1 /\ p \in DOMAIN sessions) =>
                  /\ lastCall.fwd = <<[server |-> p, tool |-> t, args |-> lastCall.args]>>
                  /\ lastCall.lookups = <<p>>
            /\ (lastCall.err # NoErr /\ lastCall.lookups = <<>>) =>
                  lastCall.err[1] = "invalid tool name format: "
            /\ (lastCall.err # NoErr /\ lastCall.lookups # <<>> /\ lastCall.fwd = <<>>) =>
                  lastCall.err[1] = "server "
            /\ (lastCall.err # NoErr /\ lastCall.fwd # <<>>) =>
                  lastCall.err[1] = "failed to call tool: "

\* a call with arguments was forwarded in a registry of two providers
C27_Witness ==
    /\ nCalls > 0
    /\ Cardinality(DOMAIN sessions) = 2
    /\ lastCall.fwd # <<>>
    /\ lastCall.args = "{k:1}"

----------------------------------------------------------------------------
(* Properties of the turns of Run: input, inference, tool calls *)

\* C21: an inference that fails, at the first round of a turn (streamed or
\* not) or at a follow-up round, makes Run return at once with an error
\* that carries the provider's: the round is not retried, and once Run has
\* returned no message is appended and no tool is called.
C21_InferenceErrorEndsRun ==
    [][/\ (pc \in {"infer", "reinfer"} /\ conversation' = conversation) =>
            /\ pc' = "returned"
            /\ runErr' # NoErr
            /\ \E e \in InferenceErrs : Index(runErr', e) # 0
            /\ nCalls' = nCalls
       /\ (pc = "returned" /\ runErr # NoErr) =>
            /\ pc' \in {"returned", "exited"}
            /\ conversation' = conversation
            /\ nCalls' = nCalls
            /\ runErr' = runErr]_vars

\* Run has returned the error of a follow-up inference, after a tool call
C21_Witness ==
    /\ pc = "returned"
    /\ runErr # NoErr
    /\ nCalls > 0
    /\ conversation[Len(conversation)].Role = "tool"

\* C22: once the interrupt has arrived while a tool call was in flight,
\* the program makes no further tool call or inference request and ends
\* only with the registry torn down: Close has run on every session.
C22_CancelTearsDown ==
    pc = "interrupted" =>
        /\ mcpPc = "closed"
        /\ Len(closed) = Cardinality(DOMAIN sessions)

\* the conversation is empty or ends with a response without tool calls
Resolved(conv) ==
    \/ conv = <<>>
    \/ /\ conv[Len(conv)].Role = "assistant"
       /\ Len(conv[Len(conv)].ToolCalls) = 0

\* C23: a user message is appended only to a conversation that is empty or
\* ends with a response without tool calls, and Run is at the prompt only
\* with such a conversation.
C23_InputOnlyWhenResolved ==
    [][/\ (/\ Len(conversation') > Len(conversation)
            /\ conversation'[Len(conversation')].Role = "user")
           => Resolved(conversation)
       /\ pc' = "await" => Resolved(conversation')]_vars

\* a second user message was accepted after a turn with a tool call
C23_Witness ==
    \E i, j, k \in DOMAIN conversation :
        /\ i < j /\ j < k
        /\ conversation[i].Role = "user"
        /\ conversation[j].Role = "tool"
        /\ conversation[k].Role = "user"

\* C24: the tool calls of a response are invoked one at a time in the order
\* of the message: when call idx is invoked the tool messages of the calls
\* before it, and only those, follow the response, the call invoked is
\* call idx, and its tool message is appended by the same iteration, so the
\* tool messages stand in the order of the calls.
C24_ToolCallsInOrder ==
    [][pc = "tools" =>
          LET a == Len(conversation) - (idx - 1)
          IN  /\ a >= 1
              /\ conversation[a] = message
              /\ \A j \in 1..(idx - 1) :
                    /\ conversation[a + j].Role = "tool"
                    /\ conversation[a + j].ToolName = message.ToolCalls[j].Name
              /\ nCalls' = nCalls + 1 =>
                    /\ lastCall'.name = message.ToolCalls[idx].Name
                    /\ Len(conversation') = Len(conversation) + 1
                    /\ conversation'[a + idx].Role = "tool"
                    /\ conversation'[a + idx].ToolName = message.ToolCalls[idx].Name]_vars

\* both calls of a response with two differently named calls were executed
C24_Witness ==
    /\ pc = "reinfer"
    /\ Len(message.ToolCalls) = 2
    /\ message.ToolCalls[1].Name # message.ToolCalls[2].Name
    /\ conversation[Len(conversation)].ToolName = message.ToolCalls[2].Name

\* the contents of the fragments, joined in arrival order
RECURSIVE JoinedContent(_)
JoinedContent(fs) ==
    IF fs = <<>> THEN <<>>
    ELSE Head(fs).Message.Content \o JoinedContent(Tail(fs))

\* the non-empty contents of the fragments, in arrival order
RECURSIVE Pieces(_)
Pieces(fs) ==
    IF fs = <<>> THEN <<>>
    ELSE (IF Head(fs).Message.Content # <<>>
          THEN <<Head(fs).Message.Content>> ELSE <<>>)
         \o Pieces(Tail(fs))

\* C25: when the stream ends with the completion fragment, the content of
\* the message runInferenceStreaming returns is the contents of all the
\* fragments received joined in arrival order; and at every moment the
\* output holds the non-empty contents of the fragments received so far,
\* one piece per fragment.
C25_StreamedContent ==
    /\ streamPc = "returned" =>
          acc.finalMessage.Content = JoinedContent(received)
    /\ Len(printed) = Len(Pieces(received))
    /\ \A i \in DOMAIN printed :
          printed[i] = [kind |-> "assistant", text |-> Pieces(received)[i]]

\* a stream of "x", "y" and the completion has been received
C25_Witness ==
    /\ streamPc = "returned"
    /\ Len(received) = 3
    /\ received[1].Message.Content = <<"x">>
    /\ received[2].Message.Content = <<"y">>
    /\ received[3].Message.Content = <<>>

\* C28: the conversation is append-only: every step of Run leaves the
\* conversation it found as a prefix of the one it leaves.
C28_AppendOnly ==
    [][/\ Len(conversation') >= Len(conversation)
       /\ SubSeq(conversation', 1, Len(conversation)) = conversation]_vars

\* user input, a response with a tool call, the tool result and the
\* follow-up response have been appended
C28_Witness ==
    /\ Len(conversation) >= 4
    /\ conversation[1].Role = "user"
    /\ conversation[2].Role = "assistant"
    /\ conversation[3].Role = "tool"
    /\ conversation[Len(conversation)].Role = "assistant"

\* C29: an empty user input leaves the conversation as it was and starts
\* no inference and no tool call: Run is at the prompt again.
C29_EmptyInputSkipped ==
    [][(pc = "await" /\ pc' # "returned" /\ userInput' = <<>>) =>
          /\ pc' = "await"
          /\ conversation' = conversation
          /\ message' = message
          /\ nCalls' = nCalls
          /\ printed' = printed]_vars

\* an empty input was read after a turn
C29_Witness ==
    /\ pc = "await"
    /\ userInput = <<>>
    /\ conversation # <<>>

\* C30: when the prompt fails, Run returns nil, with no message appended
\* and no inference or tool call made; after Run has returned no input is
\* read and the conversation stays as it is.
C30_InputEndTerminates ==
    [][/\ (pc = "await" /\ pc' # "await" /\ conversation' = conversation) =>
            /\ pc' = "returned"
            /\ runErr' = NoErr
            /\ nCalls' = nCalls
            /\ message' = message
       /\ pc \in {"returned", "exited"} =>
            /\ pc' \in {"returned", "exited"}
            /\ conversation' = conversation
            /\ userInput' = userInput
            /\ nCalls' = nCalls]_vars

\* the prompt failed after a turn: Run has returned nil
C30_Witness ==
    /\ pc = "returned"
    /\ runErr = NoErr
    /\ conversation # <<>>

----------------------------------------------------------------------------
(* Properties of the router on names with an empty part *)

\* C39: a name with exactly one "__" is accepted by parseToolName even when
\* the part before or after the "__" is empty: "__tool" makes CallTool look
\* up the provider with the empty name and fail with a server-not-found
\* error, and "server__" forwards the empty tool name to a known provider.
C39_EmptyPartsAccepted ==
    (nCalls > 0 /\ Count(lastCall.name, Sep) = 1) =>
        /\ lastCall.err = NoErr \/ Head(lastCall.err) # "invalid tool name format: "
        /\ Len(lastCall.lookups) = 1
        /\ SubSeq(lastCall.name, 1, 2) = Sep =>
              /\ lastCall.lookups = <<(<<>>)>>
              /\ lastCall.err = <<"server ", " not found">>
              /\ lastCall.result = NilResult
              /\ lastCall.fwd = <<>>
        /\ \A s \in DOMAIN sessions :
              (lastCall.name = s \o Sep /\ s[Len(s)] # "_") =>
                  /\ lastCall.lookups = <<s>>
                  /\ lastCall.fwd = <<[server |-> s, tool |-> <<>>,
                                       args |-> lastCall.args]>>

\* "a__" has been routed to the connected provider "a" with the empty tool
\* name
C39_Witness ==
    /\ nCalls > 0
    /\ lastCall.name = <<"a", "_", "_">>
    /\ <<"a">> \in DOMAIN sessions
    /\ lastCall.fwd # <<>>
    /\ lastCall.fwd[1].tool = <<>>

----------------------------------------------------------------------------
(* Properties of the tool result: what is stored and what is shown *)

\* C31: the content of the tool message is the full formatted result,
\* whatever its length; what is written out is that text when it has at most
\* 500 bytes, and its first 500 bytes followed by the truncation marker when
\* it is longer.
C31_FullResultStored ==
    (pc = "reinfer" /\ lastCall.err = NoErr) =>
        LET full == formatToolResult(lastCall.result)
            stored == conversation[Len(conversation)]
            shown == printed[Len(printed)]
        IN  /\ stored.Role = "tool"
            /\ stored.Content = full
            /\ shown.kind = "result"
            /\ Len(full) <= 500 => shown.text = full
            /\ Len(full) > 500 =>
                  shown.text = SubSeq(full, 1, 500) \o <<"... (truncated)">>

\* a result of more than 500 bytes has been stored whole and shown cut
C31_Witness ==
    /\ pc = "reinfer"
    /\ lastCall.err = NoErr
    /\ Len(formatToolResult(lastCall.result)) > 500
    /\ Len(conversation[Len(conversation)].Content) > 500
    /\ Len(printed[Len(printed)].text) = 501

----------------------------------------------------------------------------
(* Properties of the registry and the catalog during a run *)

\* C32: once NewClient has returned no step of Run, and so no GetTools and
\* no CallTool, adds, removes or replaces an entry of the session map; the
\* catalog Run uses is what the one GetTools before the first turn returned
\* and stays the same for every inference request.
C32_RegistryReadOnly ==
    [][/\ mcpPc # "new" => sessions' = sessions
       /\ pc \notin {"main", "start"} =>
             /\ tools' = tools
             /\ catalog' = catalog
       /\ pc' \in {"infer", "reinfer"} =>
             /\ listing'.done
             /\ tools' = catalog']_vars

\* a call forwarded to the session failed, and a second turn has reached its
\* inference request with the catalog fetched at the start
C32_Witness ==
    /\ pc = "infer"
    /\ Len(conversation) >= 5
    /\ lastCall.fwd # <<>>
    /\ lastCall.err # NoErr
    /\ sessions = RunRegistry
    /\ tools # <<>>

----------------------------------------------------------------------------
(* Properties of the shape of a turn *)

\* the position after the rounds that start at position i of conv: each
\* round is an assistant message with tool calls followed by one tool
\* message per call, in the order of the calls, and the last message is an
\* assistant message without tool calls; 0 when conv has no such rounds at i
RECURSIVE RoundsEnd(_, _)
RoundsEnd(conv, i) ==
    IF i > Len(conv) \/ conv[i].Role # "assistant"
    THEN 0
    ELSE LET calls == conv[i].ToolCalls
             k == Len(calls)
         IN  IF k = 0 THEN i + 1
             ELSE IF i + k > Len(conv) THEN 0
             ELSE IF \A n \in 1..k : /\ conv[i + n].Role = "tool"
                                     /\ conv[i + n].ToolName = calls[n].Name
                  THEN RoundsEnd(conv, i + k + 1)
                  ELSE 0

\* conv from position i on is a sequence of whole turns: a user message and
\* then rounds
RECURSIVE WholeTurns(_, _)
WholeTurns(conv, i) ==
    IF i = Len(conv) + 1 THEN TRUE
    ELSE IF conv[i].Role # "user" THEN FALSE
    ELSE LET e == RoundsEnd(conv, i + 1)
         IN  e # 0 /\ WholeTurns(conv, e)

\* C33: a turn with k >= 0 rounds of tool calls appends exactly one user
\* message, then for each round the assistant message and one tool message
\* per ToolCall of it in order, then one assistant message without tool
\* calls; Run is at the prompt exactly when the conversation is made of such
\* turns, and inside a turn it is not.
C33_TurnShape ==
    /\ pc = "await" => WholeTurns(conversation, 1)
    /\ pc \in {"infer", "tools", "reinfer"} => ~WholeTurns(conversation, 1)

\* a turn of two rounds has ended: user, assistant with a call, its tool
\* message, assistant with a call, its tool message, assistant without calls
C33_Witness ==
    /\ pc = "await"
    /\ Len(conversation) = 6
    /\ conversation[1].Role = "user"
    /\ Len(conversation[2].ToolCalls) = 1
    /\ conversation[3].Role = "tool"
    /\ Len(conversation[4].ToolCalls) = 1
    /\ conversation[5].Role = "tool"
    /\ conversation[6].Role = "assistant"
    /\ Len(conversation[6].ToolCalls) = 0

----------------------------------------------------------------------------
(* Properties of LoadConfig *)

\* the field of a decoded server entry that belongs to a key of the document
FieldOf(server, key) ==
    CASE key = "command" -> server.Command
      [] key = "args" -> server.Args
      [] key = "env" -> server.Env
      [] key = "type" -> server.Type
      [] key = "url" -> server.URL
      [] key = "headers" -> server.Headers

\* C35: LoadConfig returns an error and a nil config when the file cannot be
\* read or its content is not JSON; for a configuration document it returns
\* no error and a config with an entry for every provider of the document,
\* each with the command, args, env, type, url and headers the document
\* gives.
C35_LoadConfig ==
    loaded.done =>
        /\ (~cfgFile.readable \/ cfgFile.data.kind = "garbage") =>
              /\ loaded.err # NoErr
              /\ loaded.config = NilConfig
        /\ (cfgFile.readable /\ cfgFile.data.kind = "document") =>
              LET doc == cfgFile.data.servers
              IN  /\ loaded.err = NoErr
                  /\ ~loaded.config.nil
                  /\ DOMAIN loaded.config.MCPServers = DOMAIN doc
                  /\ \A p \in DOMAIN doc : \A key \in DOMAIN doc[p] \cap FieldKeys :
                        FieldOf(loaded.config.MCPServers[p], key) = doc[p][key]

\* a document with a stdio entry and an SSE entry has been loaded
C35_Witness ==
    /\ loaded.done
    /\ loaded.err = NoErr
    /\ DOMAIN loaded.config.MCPServers = {"filesystem", "remote"}
    /\ loaded.config.MCPServers["filesystem"].Command = "npx"
    /\ loaded.config.MCPServers["filesystem"].Type = ""
    /\ loaded.config.MCPServers["remote"].Type = "sse"
    /\ loaded.config.MCPServers["remote"].URL = "http://localhost:8080/sse"

----------------------------------------------------------------------------
(* Properties of the file tools *)

\* C36: edit_file of edit_tool creates the file when the path does not
\* exist, whatever the old_str, empty or not, as long as it differs from
\* new_str.
C36_MissingFileCreated ==
    [][(/\ toolOut'.done
        /\ toolIn'.json
        /\ toolIn'.Path # ""
        /\ toolIn'.OldStr # toolIn'.NewStr
        /\ toolIn'.Path \notin DOMAIN files)
       => /\ toolIn'.Path \in DOMAIN files'
          /\ toolOut'.err = NoErr]_vars

\* C38: with a non-empty old_str EditFile rewrites the file only when
\* old_str occurs exactly once in it, and then the content is the old one
\* with that occurrence replaced by new_str; when old_str occurs zero times
\* or more than once, or equals new_str, or the path is empty, EditFile
\* returns an error and every file is as it was.
C38_UniqueMatchOnly ==
    [][(toolOut'.done /\ toolIn'.json /\ toolIn'.OldStr # <<>>) =>
          LET in == toolIn'
              there == in.Path \in DOMAIN files
              n == IF there THEN Count(files[in.Path], in.OldStr) ELSE 0
          IN  /\ files' # files => (there /\ n = 1 /\ toolOut'.err = NoErr)
              /\ (there /\ n = 1 /\ in.OldStr # in.NewStr /\ toolOut'.err = NoErr) =>
                    \E i \in 1..Len(files[in.Path]) :
                        /\ SubSeq(files[in.Path], i, i + Len(in.OldStr) - 1) = in.OldStr
                        /\ files'[in.Path] =
                              SubSeq(files[in.Path], 1, i - 1) \o in.NewStr
                                \o SubSeq(files[in.Path], i + Len(in.OldStr),
                                          Len(files[in.Path]))
              /\ (there /\ n # 1) \/ in.OldStr = in.NewStr \/ in.Path = "" =>
                    /\ toolOut'.err # NoErr
                    /\ files' = files]_vars

\* old_str was found twice in the file and the call failed
C38_Witness ==
    /\ toolOut.done
    /\ toolIn.json
    /\ toolIn.Path = "f"
    /\ toolIn.OldStr = <<"a">>
    /\ toolIn.NewStr = <<"b">>
    /\ "f" \in DOMAIN files
    /\ files["f"] = <<"a", "b", "a">>
    /\ toolOut.err # NoErr

\* C37: edit_file of the filesystem provider creates the file when the path
\* does not exist, and when the file exists the content it leaves is an edit
\* of the existing content: what was there is still there.
C37_EditAsDescribed ==
    [][toolOut'.done =>
          LET absPath == resolvePath(toolIn'.Path)
          IN  /\ absPath \notin DOMAIN files =>
                    /\ absPath \in DOMAIN files'
                    /\ ~toolOut'.IsError
              /\ absPath \in DOMAIN files =>
                    Index(files'[absPath], files[absPath]) # 0]_vars

----------------------------------------------------------------------------
(* Properties of Agent.Run of edit_tool *)

\* C40: in edit_tool's Run, when the function of a tool that was found
\* returns an error, Run returns at once, and what it returns is nil; no tool
\* message is appended for that call and the calls after it are not
\* executed, so the conversation ends with tool calls left unanswered.  A
\* call of a name that is no tool of the agent appends a tool message with
\* the not-found error and the range goes on.
C40_ToolErrorEndsRunSilently ==
    [][pc = "tools" =>
          LET toolCall == message.ToolCalls[idx]
          IN  /\ (toolCall.Name \in AgentToolNames /\ ran'[Len(ran')].err # NoErr) =>
                    /\ pc' = "returned"
                    /\ runErr' = NoErr
                    /\ conversation' = conversation
                    /\ Len(conversation) >= idx
                    /\ conversation[Len(conversation) - (idx - 1)] = message
                    /\ Len(ran') = Len(ran) + 1
              /\ toolCall.Name \notin AgentToolNames =>
                    /\ ran' = ran
                    /\ Len(conversation') = Len(conversation) + 1
                    /\ conversation'[Len(conversation')].Role = "tool"
                    /\ conversation'[Len(conversation')].ToolName = toolCall.Name
                    /\ conversation'[Len(conversation')].Content =
                          <<"tool '", toolCall.Name, "' not found">>
                    /\ pc' \in {"tools", "reinfer"}]_vars

\* the first of two calls failed in its tool function: Run has returned nil,
\* the response is the last message and the second call was not executed
C40_Witness ==
    /\ pc = "returned"
    /\ runErr = NoErr
    /\ ran # <<>>
    /\ ran[Len(ran)].err # NoErr
    /\ Len(message.ToolCalls) = 2
    /\ idx = 1
    /\ conversation[Len(conversation)] = message

====
